---- MODULE Spec2Model ----
(***************************************************************************)
(* A model of the PlaybookPlan reconciler of ansible-operator (v1beta1):   *)
(* the outdated-host evaluator, the schedule evaluator, the job builder's  *)
(* naming, the status evaluator and the reconcile pass that sequences      *)
(* them.                                                                   *)
(*                                                                         *)
(* Option<T> is modelled as a sequence: None is <<>> and Some(x) is <<x>>. *)
(* A String is modelled as a sequence of one-character strings.            *)
(* A BTreeMap<String, Vec<String>> is modelled as a sequence of            *)
(* [name, hosts] records kept in ascending order of name (inventory names  *)
(* are modelled as naturals), which is the map's iteration order.          *)
(* A DateTime is modelled as an integer number of seconds.                 *)
(***************************************************************************)
EXTENDS Integers, Sequences, FiniteSets, TLC

(***************************************************************************)
(* Bounds of the model                                                     *)
(***************************************************************************)
\* at most this many jobs exist in the cluster
MaxJobs == 2

VARIABLES
    clock,          \* the current instant, as an index into Instants
    spec_mode,      \* spec.mode: "OneShot" or "Recurring"
    spec_schedule,  \* spec.schedule: Option of a cron expression
    spec_inventory, \* spec.inventory: the list of [name, hosts]
    generation,     \* metadata.generation
    fingerprint,    \* the execution hash of the current playbook and secrets
    plan_status,    \* the persisted PlaybookPlanStatus
    jobs,           \* the jobs in the cluster
    workspace,      \* the workspace secret: Option of what was rendered
    last,           \* what the latest pass did (NoPass after any other step)
    creations,      \* history: how many jobs were created per (fingerprint, host, start)
    fnIn,           \* input of the pure-function specifications
    fnOut           \* output of the pure-function specifications

vars == <<clock, spec_mode, spec_schedule, spec_inventory, generation,
          fingerprint, plan_status, jobs, workspace, last, creations, fnIn, fnOut>>

(***************************************************************************)
(* Option helpers                                                          *)
(***************************************************************************)
None == <<>>
Some(x) == <<x>>
IsSome(o) == o /= <<>>
Unwrap(o) == o[1]

(***************************************************************************)
(* ExecutionHash: Display writes the u64 in lowercase hexadecimal          *)
(***************************************************************************)
HexDigits == <<"0", "1", "2", "3", "4", "5", "6", "7",
               "8", "9", "a", "b", "c", "d", "e", "f">>

RECURSIVE HexOfPositive(_)
HexOfPositive(n) ==
    IF n = 0 THEN <<>>
    ELSE Append(HexOfPositive(n \div 16), HexDigits[(n % 16) + 1])

\* a variant of HashToString that writes the hash in decimal
DecimalOfHash(n) ==
    LET RECURSIVE Dec(_)
        Dec(k) == IF k = 0 THEN <<>>
                  ELSE Append(Dec(k \div 10), HexDigits[(k % 10) + 1])
    IN IF n = 0 THEN <<"0">> ELSE Dec(n)

\* execution_hash.to_string(), i.e. format!("{:x}", self.0)
HashToString(n) == IF n = 0 THEN <<"0">> ELSE HexOfPositive(n)

(***************************************************************************)
(* Outdated-host evaluator                                                 *)
(***************************************************************************)
\* hosts.values().flatten(): the host lists of the map, in key order
RECURSIVE Flatten(_)
Flatten(groups) ==
    IF groups = <<>> THEN <<>>
    ELSE Head(groups).hosts \o Flatten(Tail(groups))

\* a variant of find_outdated_hosts that keeps the hosts whose hash is equal
find_outdated_hosts_SameHash(status, execution_hash) ==
    IF ~IsSome(status.eligible_hosts) THEN <<>>
    ELSE LET flat == Flatten(Unwrap(status.eligible_hosts))
         IN IF ~IsSome(status.hosts_status) THEN flat
            ELSE LET hs == Unwrap(status.hosts_status)
                     Keep(host) ==
                         IF host \notin DOMAIN hs THEN TRUE
                         ELSE hs[host].last_applied_hash = HashToString(execution_hash)
                 IN SelectSeq(flat, Keep)

find_outdated_hosts(status, execution_hash) ==
    IF ~IsSome(status.eligible_hosts) THEN <<>>
    ELSE LET flat == Flatten(Unwrap(status.eligible_hosts))
         IN IF ~IsSome(status.hosts_status) THEN flat
            ELSE LET hs == Unwrap(status.hosts_status)
                     Keep(host) ==
                         IF host \notin DOMAIN hs THEN TRUE
                         ELSE hs[host].last_applied_hash /= HashToString(execution_hash)
                 IN SelectSeq(flat, Keep)

\* a variant of find_all_hosts that returns the hosts of the last group only
find_all_hosts_LastGroup(status) ==
    IF ~IsSome(status.eligible_hosts) THEN <<>>
    ELSE IF Unwrap(status.eligible_hosts) = <<>> THEN <<>>
    ELSE Unwrap(status.eligible_hosts)[Len(Unwrap(status.eligible_hosts))].hosts

find_all_hosts(status) ==
    IF ~IsSome(status.eligible_hosts) THEN <<>>
    ELSE Flatten(Unwrap(status.eligible_hosts))

(***************************************************************************)
(* Schedule evaluator                                                      *)
(*                                                                         *)
(* A cron expression is modelled by its firings: offset + k * period for   *)
(* every integer k.  cron::Schedule::after(t) yields the firings strictly  *)
(* after t, earliest first.                                                *)
(***************************************************************************)
NextAfter(cron, t) ==
    cron.offset + cron.period * (((t - cron.offset) \div cron.period) + 1)

\* a variant of forecast_next_run that adds the window to now
forecast_next_run_AddsWindow(cron, now, window) ==
    LET offset_now == now + (IF IsSome(window) THEN Unwrap(window) ELSE 0)
    IN NextAfter(cron, offset_now)

\* forecast_next_run(cron, now, window): window is an Option<Duration>
forecast_next_run(cron, now, window) ==
    LET offset_now == now - (IF IsSome(window) THEN Unwrap(window) ELSE 0)
    IN NextAfter(cron, offset_now)

TimingNow(t) == [kind |-> "Now", at |-> t]
TimingDelayed(t) == [kind |-> "Delayed", at |-> t]

\* a variant of evaluate_schedule that also accepts a firing less than the
\* window ahead of now
evaluate_schedule_Symmetric(schedule, now, window) ==
    IF ~IsSome(schedule) THEN TimingNow(now)
    ELSE LET next_run == forecast_next_run(Unwrap(schedule), now, Some(window))
             offset_now == now - window
             diff == next_run - offset_now
         IN IF diff < 2 * window THEN TimingNow(next_run)
            ELSE TimingDelayed(next_run)

\* a variant of evaluate_schedule that forecasts from now + window
evaluate_schedule_LooksAhead(schedule, now, window) ==
    IF ~IsSome(schedule) THEN TimingNow(now)
    ELSE LET next_run == forecast_next_run(Unwrap(schedule), now, Some(0 - window))
             offset_now == now - window
             diff == next_run - offset_now
         IN IF diff <= window THEN TimingNow(next_run)
            ELSE TimingDelayed(next_run)

\* a variant of evaluate_schedule that accepts a firing only if diff < window
evaluate_schedule_StrictWindow(schedule, now, window) ==
    IF ~IsSome(schedule) THEN TimingNow(now)
    ELSE LET next_run == forecast_next_run(Unwrap(schedule), now, Some(window))
             offset_now == now - window
             diff == next_run - offset_now
         IN IF diff < window THEN TimingNow(next_run)
            ELSE TimingDelayed(next_run)

evaluate_schedule(schedule, now, window) ==
    IF ~IsSome(schedule) THEN TimingNow(now)
    ELSE LET next_run == forecast_next_run(Unwrap(schedule), now, Some(window))
             offset_now == now - window
             diff == next_run - offset_now
         IN IF diff <= window THEN TimingNow(next_run)
            ELSE TimingDelayed(next_run)

(***************************************************************************)
(* Job builder: the job's name and labels                                  *)
(***************************************************************************)
RECURSIVE Xor(_, _)
Xor(a, b) ==
    IF a = 0 THEN b
    ELSE IF b = 0 THEN a
    ELSE ((a + b) % 2) + 2 * Xor(a \div 2, b \div 2)

ALPHABET == <<"a", "b", "c", "d", "e", "f", "g", "h", "i", "j", "k", "l", "m",
              "n", "o", "p", "q", "r", "s", "t", "u", "v", "w", "x", "y", "z",
              "0", "1", "2", "3", "4", "5", "6", "7", "8", "9">>

RECURSIVE Base36Digits(_)
Base36Digits(num) ==
    IF num = 0 THEN <<>>
    ELSE Append(Base36Digits(num \div Len(ALPHABET)), ALPHABET[(num % Len(ALPHABET)) + 1])

encode_base36(num) ==
    IF num = 0 THEN <<"a", "a", "a", "a", "a", "a">>
    ELSE Base36Digits(num)

LEN == 5

\* a variant of generate_id that keeps the leading digits of a long number
generate_id_Leading(num) ==
    LET encoded == encode_base36(num)
    IN IF Len(encoded) = LEN THEN encoded
       ELSE IF Len(encoded) > LEN
            THEN SubSeq(encoded, 1, LEN)
            ELSE [i \in 1..(LEN - Len(encoded)) |-> "a"] \o encoded

generate_id(num) ==
    LET encoded == encode_base36(num)
    IN IF Len(encoded) = LEN THEN encoded
       ELSE IF Len(encoded) > LEN
            THEN SubSeq(encoded, Len(encoded) - LEN + 1, Len(encoded))
            ELSE [i \in 1..(LEN - Len(encoded)) |-> "a"] \o encoded

\* The XxHash3_64 digest of a start time.  The digest function is outside the
\* repository; it is modelled as a fixed mixing function of the instant.
XxHash3_64(t) == ((t * 40503 + 9973) % 65536) * 16384 + (t % 16384)

\* start is an Option<DateTime>
start_time_hash(start) ==
    IF IsSome(start) THEN XxHash3_64(Unwrap(start)) ELSE 1

PlanName == "plan"

\* a variant of job_name that derives the id from the instant of the pass
job_name_PerPass(hash, start, host) ==
    [plan |-> PlanName,
     id   |-> generate_id(Xor(hash, XxHash3_64(clock))),
     host |-> host]

\* "apply-{pb_name}-{id}-on-{host}"
job_name(hash, start, host) ==
    [plan |-> PlanName,
     id   |-> generate_id(Xor(hash, start_time_hash(start))),
     host |-> host]

\* a variant of job_labels that writes the hash label in decimal
job_labels_Decimal(hash, host) ==
    [name |-> PlanName, hash |-> DecimalOfHash(hash), host |-> Some(host)]

job_labels(hash, host) ==
    [name |-> PlanName, hash |-> HashToString(hash), host |-> Some(host)]

\* create_job_for_host: the parts of the job the reconciler reads back.
\* conditions is the set of condition types whose status is "True".
create_job_for_host(host, hash, start) ==
    [name       |-> job_name(hash, start, host),
     labels     |-> job_labels(hash, host),
     conditions |-> {}]

(***************************************************************************)
(* Status evaluator                                                        *)
(***************************************************************************)
HasCondition(job, type) == type \in job.conditions

\* a variant of count_successful that counts every job
count_successful_All(listed) == Cardinality(listed)

count_successful(listed) ==
    Cardinality({job \in listed : HasCondition(job, "SuccessCriteriaMet")})

\* a variant of count_failed that sees no failed job
count_failed_None(listed) == 0

count_failed(listed) ==
    Cardinality({job \in listed : HasCondition(job, "Failed")})

\* a variant of upsert_condition that replaces the stored condition in any case
upsert_condition_AlwaysReplace(conditions, new_condition) ==
    IF \E i \in 1..Len(conditions) : conditions[i].type = new_condition.type
    THEN LET i == CHOOSE k \in 1..Len(conditions) :
                      /\ conditions[k].type = new_condition.type
                      /\ \A m \in 1..(k - 1) : conditions[m].type /= new_condition.type
         IN [conditions EXCEPT ![i] = new_condition]
    ELSE Append(conditions, new_condition)

\* a variant of upsert_condition that pushes the condition in any case
upsert_condition_AlwaysAppend(conditions, new_condition) ==
    Append(conditions, new_condition)

\* utils::upsert_condition
upsert_condition(conditions, new_condition) ==
    IF \E i \in 1..Len(conditions) : conditions[i].type = new_condition.type
    THEN LET i == CHOOSE k \in 1..Len(conditions) :
                      /\ conditions[k].type = new_condition.type
                      /\ \A m \in 1..(k - 1) : conditions[m].type /= new_condition.type
         IN IF /\ conditions[i].status = new_condition.status
               /\ conditions[i].reason = new_condition.reason
            THEN conditions
            ELSE [conditions EXCEPT ![i] = new_condition]
    ELSE Append(conditions, new_condition)

\* evaluate_playbookplan_conditions(jobs, status), evaluated at instant t
evaluate_playbookplan_conditions(listed, st, t) ==
    LET num_total == Cardinality(listed)
        num_successful == count_successful(listed)
        num_failed == count_failed(listed)
        num_finished == num_failed + num_successful
        num_running == num_total - num_finished
        running_condition ==
            IF num_finished < num_total
            THEN [type |-> "Running", status |-> "True", reason |-> Some("JobsRunning"),
                  message |-> Some(<<num_running, "jobs are currently running">>),
                  last_transition_time |-> Some(t)]
            ELSE [type |-> "Running", status |-> "False", reason |-> None,
                  message |-> None, last_transition_time |-> Some(t)]
        ready_condition ==
            IF num_successful = num_total
            THEN [type |-> "Ready", status |-> "True", reason |-> Some("AllJobsSucceeded"),
                  message |-> Some(<<num_successful, num_total, "jobs completed successfully">>),
                  last_transition_time |-> Some(t)]
            ELSE IF num_failed > 0
            THEN [type |-> "Ready", status |-> "False", reason |-> Some("SomeOrAllJobsFailed"),
                  message |-> Some(<<num_failed, num_total, "jobs have failed">>),
                  last_transition_time |-> Some(t)]
            ELSE [type |-> "Ready", status |-> "False", reason |-> Some("AwaitingJobResults"),
                  message |-> Some(<<num_running, "jobs are running">>),
                  last_transition_time |-> Some(t)]
    IN [st EXCEPT !.conditions =
            upsert_condition(upsert_condition(st.conditions, running_condition),
                             ready_condition)]

\* a variant of evaluate_per_host_status without the filter on SuccessCriteriaMet
evaluate_per_host_status_AnyJob(listed, hash, st) ==
    LET targets == {Unwrap(job.labels.host) : job \in {j \in listed : IsSome(j.labels.host)}}
        old == IF IsSome(st.hosts_status) THEN Unwrap(st.hosts_status) ELSE <<>>
        new == [h \in (DOMAIN old) \cup targets |->
                   IF h \in targets
                   THEN [last_applied_hash |-> HashToString(hash)]
                   ELSE old[h]]
    IN IF listed = {} THEN st
       ELSE [st EXCEPT !.hosts_status = Some(new)]

\* a variant of evaluate_per_host_status that drops the entries of other hosts
evaluate_per_host_status_Replace(listed, hash, st) ==
    LET successful == {job \in listed : HasCondition(job, "SuccessCriteriaMet")}
        targets == {Unwrap(job.labels.host) : job \in {j \in successful : IsSome(j.labels.host)}}
        new == [h \in targets |-> [last_applied_hash |-> HashToString(hash)]]
    IN IF successful = {} THEN st
       ELSE [st EXCEPT !.hosts_status = Some(new)]

\* evaluate_per_host_status(jobs, hash, status)
evaluate_per_host_status(listed, hash, st) ==
    LET successful == {job \in listed : HasCondition(job, "SuccessCriteriaMet")}
        targets == {Unwrap(job.labels.host) : job \in {j \in successful : IsSome(j.labels.host)}}
        old == IF IsSome(st.hosts_status) THEN Unwrap(st.hosts_status) ELSE <<>>
        new == [h \in (DOMAIN old) \cup targets |->
                   IF h \in targets
                   THEN [last_applied_hash |-> HashToString(hash)]
                   ELSE old[h]]
    IN IF successful = {} THEN st
       ELSE [st EXCEPT !.hosts_status = Some(new)]

all_jobs_finished(listed) ==
    \A job \in listed :
        HasCondition(job, "Failed") \/ HasCondition(job, "SuccessCriteriaMet")

(***************************************************************************)
(* Inventory resolver (static host lists)                                  *)
(***************************************************************************)
\* BTreeMap::insert: replaces the value of an existing key, keeps key order
RECURSIVE MapInsert(_, _, _)
MapInsert(m, name, hosts) ==
    IF m = <<>> THEN <<[name |-> name, hosts |-> hosts]>>
    ELSE IF Head(m).name = name THEN <<[name |-> name, hosts |-> hosts]>> \o Tail(m)
    ELSE IF Head(m).name > name THEN <<[name |-> name, hosts |-> hosts]>> \o m
    ELSE <<Head(m)>> \o MapInsert(Tail(m), name, hosts)

RECURSIVE resolve_into(_, _)
resolve_into(resolved, inventories_spec) ==
    IF inventories_spec = <<>> THEN resolved
    ELSE resolve_into(MapInsert(resolved, Head(inventories_spec).name,
                                Head(inventories_spec).hosts),
                      Tail(inventories_spec))

resolve(inventories_spec) == resolve_into(<<>>, inventories_spec)

SeqToSet(q) == {q[i] : i \in 1..Len(q)}

(***************************************************************************)
(* The inputs the model draws from                                         *)
(***************************************************************************)
Hosts == {"h1", "h2"}
Fingerprints == {10, 26}
\* the 5-field cron expression "* * * * *": a firing at second 0 of every minute
Minutely == [period |-> 60, offset |-> 0]
Inventories ==
    { <<[name |-> 2, hosts |-> <<"h1">>], [name |-> 1, hosts |-> <<"h1", "h2">>]>>,
      <<[name |-> 1, hosts |-> <<"h1">>]>> }
\* The instants the clock takes, one in each region of the schedule gate around
\* the firing at 60 (long before it, less than 5 s before it, at it, inside its
\* window, at the end of the window), and the next firing at 120.
Instants == <<50, 57, 60, 67, 75, 120>>

DefaultStatus ==
    [eligible_hosts |-> None, eligible_hosts_count |-> None,
     last_rendered_generation |-> None, conditions |-> <<>>,
     hosts_status |-> None, next_run |-> None, phase |-> None,
     current_hash |-> None]

NoPass == [kind |-> "none"]

(***************************************************************************)
(* The reconcile pass                                                      *)
(***************************************************************************)
\* the firing window of the schedule gate and the lookback of the post-run forecast
FiringWindow == 15
ForecastLookback == -5
\* Action::requeue(Duration::from_secs(3600))
DefaultRequeue == 3600

\* a variant of is_outdated that is true only for an unset lastRenderedGeneration
is_outdated_UnsetOnly(st, gen) == ~IsSome(st.last_rendered_generation)

\* a variant of is_outdated that is true in any case
is_outdated_Always(st, gen) == TRUE

\* workspace::is_outdated
is_outdated(st, gen) ==
    IF IsSome(st.last_rendered_generation)
    THEN Unwrap(st.last_rendered_generation) < gen
    ELSE TRUE

\* a variant of job_exists that never finds the job
job_exists_Never(js, name) == FALSE

\* jobs_api.get_opt(&job_name).await?.is_some()
job_exists(js, name) == \E j \in js : j.name = name

\* The start time handed to the job builder for a firing Now(start): a Recurring
\* plan replays the playbook at every firing, so the firing is part of the job's
\* name; a OneShot plan gets one job per fingerprint and host, so it is not.
start_argument(start) ==
    IF spec_mode = "Recurring" THEN Some(start) ELSE None

\* The creation loop over the dispatch set: build the job, skip it when a job of
\* that name exists, create it otherwise.  The API server rejects the creation
\* of a name that exists (the pass then ends in an error).
RECURSIVE create_jobs(_, _, _, _, _)
create_jobs(hosts, hash, start, js, calls) ==
    IF hosts = <<>> THEN [jobs |-> js, calls |-> calls, error |-> FALSE]
    ELSE LET job == create_job_for_host(Head(hosts), hash, start)
         IN IF job_exists(js, job.name)
            THEN create_jobs(Tail(hosts), hash, start, js, calls)
            ELSE IF \E j \in js : j.name = job.name
                 THEN [jobs |-> js, calls |-> Append(calls, job.name), error |-> TRUE]
                 ELSE create_jobs(Tail(hosts), hash, start, js \cup {job},
                                  Append(calls, job.name))

\* the label selector playbookplan.name=<name>,playbookplan.hash=<currentHash>
get_jobs_for_playbookplan(js, playbookplan_name, hash) ==
    {j \in js : /\ j.labels.name = playbookplan_name
                /\ j.labels.hash = HashToString(hash)}

\* the dispatch set of a firing
dispatch_set(st, hash) ==
    IF spec_mode = "OneShot" THEN find_outdated_hosts(st, hash)
    ELSE find_all_hosts(st)

CreationKey(hash, host, start) == [hash |-> hash, host |-> host, start |-> start]

Recorded(old, keys) ==
    [k \in (DOMAIN old) \cup keys |->
        (IF k \in DOMAIN old THEN old[k] ELSE 0) + (IF k \in keys THEN 1 ELSE 0)]

\* One reconcile pass, at the instant of the clock:
\*   resolve the inventories and store eligibleHosts and their count;
\*   render the workspace when it is absent or lastRenderedGeneration < generation;
\*   store currentHash;
\*   evaluate the schedule with the firing window;
\*   Delayed(until): phase = Scheduled, nextRun = until, requeue at until;
\*   Now(start): the dispatch set; empty: phase = Finished; otherwise the
\*     creation loop, and phase = Applying when a job was created;
\*   list the jobs of the plan and the current hash, fold them into conditions
\*     and hostsStatus;
\*   Recurring and all listed jobs finished: phase = Scheduled, nextRun and the
\*     requeue from the forecast with the lookback;
\*   OneShot and no outdated host: phase = Finished, nextRun cleared;
\*   persist the status (not when the pass ended in an error) and return the
\*     requeue delay.
Reconcile ==
    LET t == Instants[clock]
        resolved == resolve(spec_inventory)
        st1 == [plan_status EXCEPT
                   !.eligible_hosts_count = Some(Cardinality(SeqToSet(Flatten(resolved)))),
                   !.eligible_hosts = Some(resolved)]
        render == ~IsSome(workspace) \/ is_outdated(plan_status, generation)
        st2 == IF render THEN [st1 EXCEPT !.last_rendered_generation = Some(generation)]
               ELSE st1
        st3 == [st2 EXCEPT !.current_hash = Some(HashToString(fingerprint))]
        timing == evaluate_schedule(spec_schedule, t, FiringWindow)
        delayed == timing.kind = "Delayed"
        dispatch == IF delayed THEN <<>> ELSE dispatch_set(st3, fingerprint)
        start == start_argument(timing.at)
        loop == create_jobs(dispatch, fingerprint, start, jobs, <<>>)
        created == loop.jobs \ jobs
        st4 == IF delayed
               THEN [st3 EXCEPT !.phase = Some("Scheduled"), !.next_run = Some(timing.at)]
               ELSE IF dispatch = <<>> THEN [st3 EXCEPT !.phase = Some("Finished")]
               ELSE IF loop.calls /= <<>> THEN [st3 EXCEPT !.phase = Some("Applying")]
               ELSE st3
        requeue4 == IF delayed THEN Some(timing.at - t) ELSE None
        listed == get_jobs_for_playbookplan(loop.jobs, PlanName, fingerprint)
        st5 == evaluate_per_host_status(listed, fingerprint,
                   evaluate_playbookplan_conditions(listed, st4, t))
        recurring_done == spec_mode = "Recurring" /\ all_jobs_finished(listed)
        next == forecast_next_run(Unwrap(spec_schedule), t, Some(ForecastLookback))
        st6 == IF recurring_done
               THEN [st5 EXCEPT !.phase = Some("Scheduled"), !.next_run = Some(next)]
               ELSE st5
        requeue6 == IF recurring_done THEN Some(next - t) ELSE requeue4
        oneshot_done == spec_mode = "OneShot" /\ find_outdated_hosts(st6, fingerprint) = <<>>
        st7 == IF oneshot_done
               THEN [st6 EXCEPT !.phase = Some("Finished"), !.next_run = None]
               ELSE st6
    IN /\ Cardinality(loop.jobs) <= MaxJobs
       /\ jobs' = loop.jobs
       /\ workspace' = IF render THEN Some([generation |-> generation, hosts |-> resolved])
                       ELSE workspace
       /\ creations' = Recorded(creations,
              {CreationKey(fingerprint, j.name.host, start) : j \in created})
       /\ plan_status' = IF loop.error THEN plan_status ELSE st7
       /\ last' = [kind |-> "pass", at |-> t, error |-> loop.error,
                   before |-> [hosts_status |-> plan_status.hosts_status,
                               phase |-> plan_status.phase,
                               next_run |-> plan_status.next_run],
                   timing |-> timing, dispatch |-> dispatch,
                   existing |-> {j.name : j \in jobs}, calls |-> loop.calls,
                   gate |-> [phase |-> st4.phase, next_run |-> st4.next_run,
                             requeue |-> requeue4],
                   requeue |-> IF IsSome(requeue6) THEN Unwrap(requeue6) ELSE DefaultRequeue]
       /\ UNCHANGED <<clock, spec_mode, spec_schedule, spec_inventory,
                      generation, fingerprint, fnIn, fnOut>>

\* time passes: the clock moves to the next instant
Tick ==
    /\ clock < Len(Instants)
    /\ clock' = clock + 1
    /\ last' = NoPass
    /\ UNCHANGED <<spec_mode, spec_schedule, spec_inventory, generation,
                   fingerprint, plan_status, jobs, workspace, creations, fnIn, fnOut>>

(***************************************************************************)
(* The environment: jobs run, the user edits the plan, secrets change      *)
(***************************************************************************)
JobFinishes(job, type) ==
    /\ job \in jobs
    /\ job.conditions = {}
    /\ jobs' = (jobs \ {job}) \cup {[job EXCEPT !.conditions = {type}]}
    /\ last' = NoPass
    /\ UNCHANGED <<clock, spec_mode, spec_schedule, spec_inventory,
                   generation, fingerprint, plan_status, workspace, creations,
                   fnIn, fnOut>>

\* The user edits the playbook: a new generation and a new fingerprint.  The
\* fingerprints are taken in ascending order, so that the edits are finitely many.
EditPlaybook(hash) ==
    /\ hash > fingerprint
    /\ fingerprint' = hash
    /\ generation' = generation + 1
    /\ last' = NoPass
    /\ UNCHANGED <<clock, spec_mode, spec_schedule, spec_inventory,
                   plan_status, jobs, workspace, creations, fnIn, fnOut>>

\* a referenced secret changes: a new fingerprint, the same generation
SecretChanges(hash) ==
    /\ hash > fingerprint
    /\ fingerprint' = hash
    /\ last' = NoPass
    /\ UNCHANGED <<clock, spec_mode, spec_schedule, spec_inventory,
                   generation, plan_status, jobs, workspace, creations, fnIn, fnOut>>

\* The user edits the inventory: a new generation, the same fingerprint.  An edit
\* removes an inventory, so that the edits are finitely many.
EditInventory(inv) ==
    /\ Len(inv) < Len(spec_inventory)
    /\ spec_inventory' = inv
    /\ generation' = generation + 1
    /\ last' = NoPass
    /\ UNCHANGED <<clock, spec_mode, spec_schedule, fingerprint,
                   plan_status, jobs, workspace, creations, fnIn, fnOut>>

Init ==
    /\ clock = 1
    /\ spec_mode \in {"OneShot", "Recurring"}
    /\ spec_schedule \in {None, Some(Minutely)}
    /\ spec_mode = "Recurring" => IsSome(spec_schedule)
    /\ spec_inventory \in Inventories
    /\ generation = 1
    /\ fingerprint = 10
    /\ plan_status = DefaultStatus
    /\ jobs = {}
    /\ workspace = None
    /\ last = NoPass
    /\ creations = <<>>
    /\ fnIn = <<>>
    /\ fnOut = <<>>

Next ==
    \/ Reconcile
    \/ Tick
    \/ \E job \in jobs : \E type \in {"SuccessCriteriaMet", "Failed"} : JobFinishes(job, type)
    \/ \E hash \in Fingerprints : EditPlaybook(hash)
    \/ \E hash \in Fingerprints : SecretChanges(hash)
    \/ \E inv \in Inventories : EditInventory(inv)

Spec == Init /\ [][Next]_vars

(***************************************************************************)
(* The pure functions, each applied to inputs drawn from a bounded set.    *)
(* The reconciler's variables stay at their initial values.                *)
(***************************************************************************)
Idle ==
    /\ clock = 1
    /\ spec_mode = "OneShot"
    /\ spec_schedule = None
    /\ spec_inventory = <<>>
    /\ generation = 1
    /\ fingerprint = 10
    /\ plan_status = DefaultStatus
    /\ jobs = {}
    /\ workspace = None
    /\ last = NoPass
    /\ creations = <<>>

IdleUnchanged ==
    UNCHANGED <<clock, spec_mode, spec_schedule, spec_inventory, generation,
                fingerprint, plan_status, jobs, workspace, last, creations>>

(***************************************************************************)
(* The schedule evaluator on its own                                       *)
(***************************************************************************)
\* "0 20 * * *": a firing at 20:00:00 of every day; instants are seconds since
\* midnight of the first day
Daily == [period |-> 86400, offset |-> 72000]
DailyInstants == {71940, 71985, 71999, 72000, 72014, 72015, 72059, 72060, 72061, 158400}
MinutelyInstants == {45, 50, 57, 59, 60, 67, 74, 75, 76, 119, 120, 135}
Windows == {15, 60}

ScheduleInputs ==
    [schedule : {None}, now : DailyInstants \cup MinutelyInstants, window : Windows]
    \cup [schedule : {Some(Daily)}, now : DailyInstants, window : Windows]
    \cup [schedule : {Some(Minutely)}, now : MinutelyInstants, window : Windows]

InitSchedule ==
    /\ Idle
    /\ fnIn \in ScheduleInputs
    /\ fnOut = <<>>

ApplyEvaluateSchedule ==
    /\ fnOut = <<>>
    /\ fnOut' = <<evaluate_schedule(fnIn.schedule, fnIn.now, fnIn.window)>>
    /\ UNCHANGED fnIn
    /\ IdleUnchanged

NextSchedule == ApplyEvaluateSchedule

SpecSchedule == InitSchedule /\ [][NextSchedule]_vars

\* the firings of a cron expression around the instants above
Firings(cron) == {cron.offset + k * cron.period : k \in -2..3}

\* the first firing strictly after t
FirstFiringAfter(cron, t) ==
    CHOOSE f \in Firings(cron) :
        /\ f > t
        /\ \A g \in Firings(cron) : g > t => f <= g

ScheduleExamples ==
    /\ evaluate_schedule(Some(Daily), 71940, 60) = TimingDelayed(72000)
    /\ evaluate_schedule(Some(Daily), 72000, 60) = TimingNow(72000)
    /\ evaluate_schedule(Some(Daily), 72059, 60) = TimingNow(72000)
    /\ evaluate_schedule(Some(Daily), 72060, 60) = TimingDelayed(158400)

Accepted(cron, now, window) ==
    {t \in Firings(cron) : t <= now /\ now - t < window}

\* C11 as stated: the firing window is a symmetric tolerance around a firing t:
\* for every now less than the window away from t, before or after, the gate
\* returns Now(t).
C11_SymmetricWindow ==
    fnOut /= <<>> /\ fnIn \in ScheduleInputs /\ IsSome(fnIn.schedule) =>
        \A t \in Firings(Unwrap(fnIn.schedule)) :
            (t - fnIn.now < fnIn.window /\ fnIn.now - t < fnIn.window) =>
                fnOut[1] = TimingNow(t)

\* C11, amended: the firing window is a tolerance after a firing t only: for
\* every now with t <= now < t + window the gate returns Now(t); when no
\* firing is that recent, the gate returns Delayed of the first firing after
\* now, however close that firing is.
C11_WindowAfterFiring ==
    fnOut /= <<>> /\ fnIn \in ScheduleInputs /\ IsSome(fnIn.schedule) =>
        LET cron == Unwrap(fnIn.schedule)
            accepted == Accepted(cron, fnIn.now, fnIn.window)
        IN /\ \A t \in accepted : fnOut[1] = TimingNow(t)
           /\ accepted = {} =>
                 fnOut[1] = TimingDelayed(FirstFiringAfter(cron, fnIn.now))

\* the daily expression 15 s before the firing, with a window of 60 s: deferred
C11_Witness ==
    /\ fnIn = [schedule |-> Some(Daily), now |-> 71985, window |-> 60]
    /\ fnOut = <<TimingDelayed(72000)>>

(***************************************************************************)
(* The outdated-host evaluator on its own                                  *)
(***************************************************************************)
EvaluatorHosts == {"h1", "h2", "h3"}
\* the values of lastAppliedHash: the hex form of 1, 2 and 255, and the decimal
\* form of 255
AppliedHashes == {<<"1">>, <<"2">>, <<"f", "f">>, <<"2", "5", "5">>}
EvaluatorFingerprints == {1, 2, 255}

\* resolved inventories: none, one group, a host in two groups, two groups
EvaluatorEligible ==
    { <<>>,
      <<[name |-> 1, hosts |-> <<"h1", "h2", "h3">>]>>,
      <<[name |-> 1, hosts |-> <<"h1", "h2">>], [name |-> 2, hosts |-> <<"h1">>]>>,
      <<[name |-> 1, hosts |-> <<"h3">>], [name |-> 2, hosts |-> <<"h2", "h1">>]>> }

HostsStatusMaps ==
    UNION {[D -> [last_applied_hash : AppliedHashes]] : D \in SUBSET EvaluatorHosts}

EvaluatorStatuses ==
    {[DefaultStatus EXCEPT !.eligible_hosts = e, !.hosts_status = h] :
        e \in {None} \cup {Some(x) : x \in EvaluatorEligible},
        h \in {None} \cup {Some(m) : m \in HostsStatusMaps}}

InitOutdated ==
    /\ Idle
    /\ fnIn \in [status : EvaluatorStatuses, hash : EvaluatorFingerprints]
    /\ fnOut = <<>>

ApplyFindOutdatedHosts ==
    /\ fnOut = <<>>
    /\ fnOut' = <<find_outdated_hosts(fnIn.status, fnIn.hash)>>
    /\ UNCHANGED fnIn
    /\ IdleUnchanged

NextOutdated == ApplyFindOutdatedHosts

SpecOutdated == InitOutdated /\ [][NextOutdated]_vars

\* the lowercase hexadecimal form of the fingerprints of the model
HexForm(n) ==
    CASE n = 1 -> <<"1">>
      [] n = 2 -> <<"2">>
      [] n = 10 -> <<"a">>
      [] n = 26 -> <<"1", "a">>
      [] n = 255 -> <<"f", "f">>
      [] n = 60466186 -> <<"3", "9", "a", "a", "4", "0", "a">>

\* host is outdated under the status and the fingerprint
IsOutdatedHost(hosts_status, host, hash) ==
    \/ ~IsSome(hosts_status)
    \/ host \notin DOMAIN Unwrap(hosts_status)
    \/ Unwrap(hosts_status)[host].last_applied_hash /= HexForm(hash)

\* the appearances of the hosts of the groups, as <<group, position>>, in
\* enumeration order
Appearances(groups) ==
    UNION {{<<g, i>> : i \in 1..Len(groups[g].hosts)} : g \in 1..Len(groups)}

Before(a, b) == a[1] < b[1] \/ (a[1] = b[1] /\ a[2] < b[2])

\* out lists exactly the outdated appearances of groups, in enumeration order
ListsOutdated(out, groups, hosts_status, hash) ==
    LET wanted == {a \in Appearances(groups) :
                      IsOutdatedHost(hosts_status, groups[a[1]].hosts[a[2]], hash)}
        Rank(a) == 1 + Cardinality({b \in wanted : Before(b, a)})
    IN /\ Len(out) = Cardinality(wanted)
       /\ \A a \in wanted : out[Rank(a)] = groups[a[1]].hosts[a[2]]

OutdatedExamples ==
    LET three == Some(<<[name |-> 1, hosts |-> <<"h1", "h2", "h3">>]>>)
        applied == Some([h \in EvaluatorHosts |->
                            [last_applied_hash |-> IF h = "h2" THEN <<"2">> ELSE <<"1">>]])
    IN /\ find_outdated_hosts([DefaultStatus EXCEPT !.eligible_hosts = three], 2)
              = <<"h1", "h2", "h3">>
       /\ find_outdated_hosts([DefaultStatus EXCEPT !.eligible_hosts = three,
                                                    !.hosts_status = applied], 2)
              = <<"h1", "h3">>

FoldJobs ==
    {[name |-> "job-h1", labels |-> [name |-> PlanName, hash |-> <<"2">>, host |-> Some("h1")]],
     [name |-> "job-h2", labels |-> [name |-> PlanName, hash |-> <<"2">>, host |-> Some("h2")]],
     [name |-> "job-unlabelled", labels |-> [name |-> PlanName, hash |-> <<"2">>, host |-> None]]}

\* status.conditions of a job, as the set of the types whose status is "True"
JobConditions == {{}, {"SuccessCriteriaMet"}, {"Failed"}}

\* the listings: some of the jobs, each with its conditions
FoldListings ==
    UNION {{ {[name |-> j.name, labels |-> j.labels, conditions |-> c[j]] : j \in J} :
               c \in [J -> JobConditions]} : J \in SUBSET FoldJobs}

FoldHostsStatus ==
    {None} \cup
    {Some(m) : m \in UNION {[D -> [last_applied_hash : {<<"1">>, <<"2">>}]] :
                               D \in SUBSET Hosts}}

FoldInputs ==
    [listed : FoldListings,
     hash : {1, 2},
     status : {[DefaultStatus EXCEPT !.hosts_status = h] : h \in FoldHostsStatus}]

InitFold ==
    /\ Idle
    /\ fnIn \in FoldInputs
    /\ fnOut = <<>>

ApplyEvaluatePerHostStatus ==
    /\ fnOut = <<>>
    /\ fnOut' = <<evaluate_per_host_status(fnIn.listed, fnIn.hash, fnIn.status)>>
    /\ UNCHANGED fnIn
    /\ IdleUnchanged

NextFold == ApplyEvaluatePerHostStatus

SpecFold == InitFold /\ [][NextFold]_vars

\* the entries of a hostsStatus, absent or present
Entries(hosts_status) ==
    IF IsSome(hosts_status) THEN Unwrap(hosts_status) ELSE <<>>

\* the hosts the successful jobs of a listing are labelled with
SucceededHosts(listed) ==
    {h \in Hosts : \E j \in listed : /\ "SuccessCriteriaMet" \in j.conditions
                                     /\ j.labels.host = Some(h)}

PassDone == last.kind = "pass"
PassPersisted == last.kind = "pass" /\ ~last.error

JobNames == {j.name : j \in jobs}

\* the hosts of spec.inventory
EligibleHosts ==
    UNION {SeqToSet(spec_inventory[i].hosts) : i \in 1..Len(spec_inventory)}

\* the eligible hosts that are outdated under a hostsStatus and the fingerprint
OutdatedUnder(hosts_status) ==
    {h \in EligibleHosts : IsOutdatedHost(hosts_status, h, fingerprint)}

\* the jobs of the plan that carry the hash label of the current fingerprint
JobsOfFingerprint ==
    {j \in jobs : j.labels.name = PlanName /\ j.labels.hash = HexForm(fingerprint)}

Finished(j) == "SuccessCriteriaMet" \in j.conditions \/ "Failed" \in j.conditions

C1_PerPass ==
    PassDone =>
        /\ \A i \in 1..Len(last.calls) :
              /\ last.calls[i] \notin last.existing
              /\ \A k \in 1..(i - 1) : last.calls[k] /= last.calls[i]
        /\ \A h \in Hosts :
              Cardinality({i \in 1..Len(last.calls) : last.calls[i].host = h}) <= 1
        /\ ~last.error =>
              /\ JobNames = last.existing \cup SeqToSet(last.calls)
              /\ \A i \in 1..Len(last.dispatch) :
                    \E n \in JobNames : n.host = last.dispatch[i]

C1_Rerun ==
    (PassPersisted /\ last'.kind = "pass") => (jobs' = jobs /\ last'.calls = <<>>)

CreatedFor(hash, host) ==
    {k \in DOMAIN creations : k.hash = hash /\ k.host = host}

CalledHosts == {last.calls[i].host : i \in 1..Len(last.calls)}

MaxFolds == 3

\* the listings of the passes: some of two jobs, each running, succeeded or failed
ConditionJobs == {j \in FoldJobs : IsSome(j.labels.host)}

ConditionListings ==
    UNION {{ {[name |-> j.name, labels |-> j.labels, conditions |-> c[j]] : j \in J} :
               c \in [J -> JobConditions]} : J \in SUBSET ConditionJobs}

\* a condition written by something else than the status evaluator
ForeignCondition ==
    [type |-> "Synced", status |-> "True", reason |-> Some("Synced"),
     message |-> None, last_transition_time |-> Some(0)]

\* the conditions a plan may carry before the first fold, with unique types
InitialConditions ==
    { <<>>,
      <<ForeignCondition>>,
      <<[type |-> "Ready", status |-> "True", reason |-> Some("AllJobsSucceeded"),
         message |-> Some(<<2, 2, "jobs completed successfully">>),
         last_transition_time |-> Some(0)]>>,
      <<[type |-> "Running", status |-> "True", reason |-> Some("JobsRunning"),
         message |-> Some(<<2, "jobs are currently running">>),
         last_transition_time |-> Some(0)],
        ForeignCondition,
        [type |-> "Ready", status |-> "False", reason |-> Some("AwaitingJobResults"),
         message |-> Some(<<2, "jobs are running">>),
         last_transition_time |-> Some(0)]>> }

InitConditions ==
    /\ Idle
    /\ fnIn = <<>>
    /\ fnOut \in {<<[DefaultStatus EXCEPT !.conditions = c]>> : c \in InitialConditions}

\* one pass folds its listing into the conditions the previous pass stored
ApplyEvaluateConditions(listed) ==
    LET at == IF fnIn = <<>> THEN 1 ELSE fnIn.at + 1
    IN /\ at <= MaxFolds
       /\ fnIn' = [listed |-> listed, at |-> at, before |-> fnOut[1].conditions,
                   previous |-> IF fnIn = <<>> THEN None ELSE Some(fnIn.listed)]
       /\ fnOut' = <<evaluate_playbookplan_conditions(listed, fnOut[1], at)>>
       /\ IdleUnchanged

NextConditions == \E listed \in ConditionListings : ApplyEvaluateConditions(listed)

SpecConditions == InitConditions /\ [][NextConditions]_vars

\* a fold has happened
Folded == fnIn /= <<>>

\* the conditions of one type among the stored ones, in their order
StoredOf(conditions, type) == SelectSeq(conditions, LAMBDA c : c.type = type)

\* the counts of a listing, taken from the jobs' conditions
NumTotal(listed) == Cardinality(listed)
NumSucceeded(listed) == Cardinality({j \in listed : "SuccessCriteriaMet" \in j.conditions})
NumFailed(listed) == Cardinality({j \in listed : "Failed" \in j.conditions})
NumRunning(listed) == NumTotal(listed) - NumSucceeded(listed) - NumFailed(listed)

\* C12 as stated: after the fold of a pass the stored Ready condition is
\* True / AllJobsSucceeded exactly when success = total and total > 0,
\* False / SomeOrAllJobsFailed when a job has failed, and
\* False / AwaitingJobResults otherwise, also when no job is listed.
C12_ReadyNeedsAJob ==
    Folded =>
        LET ready == StoredOf(fnOut[1].conditions, "Ready")
            listed == fnIn.listed
        IN /\ Len(ready) = 1
           /\ <<ready[1].status, ready[1].reason>> =
                 IF NumSucceeded(listed) = NumTotal(listed) /\ NumTotal(listed) > 0
                 THEN <<"True", Some("AllJobsSucceeded")>>
                 ELSE IF NumFailed(listed) > 0
                 THEN <<"False", Some("SomeOrAllJobsFailed")>>
                 ELSE <<"False", Some("AwaitingJobResults")>>

\* C12, the failing case: a pass that lists no job has stored Ready = True /
\* AllJobsSucceeded
C12_Witness ==
    /\ Folded
    /\ fnIn.listed = {}
    /\ fnIn.before = <<>>
    /\ \E i \in 1..Len(fnOut[1].conditions) :
           fnOut[1].conditions[i] =
               [type |-> "Ready", status |-> "True", reason |-> Some("AllJobsSucceeded"),
                message |-> Some(<<0, 0, "jobs completed successfully">>),
                last_transition_time |-> Some(fnIn.at)]

\* C13 as stated: after the fold of a pass the stored Running condition is
\* True / JobsRunning with the message "<running> jobs are currently running"
\* of that pass exactly when finished < total, and False without a reason
\* otherwise, also when no job is listed.
C13_RunningMessageOfThePass ==
    Folded =>
        LET running == StoredOf(fnOut[1].conditions, "Running")
            listed == fnIn.listed
        IN /\ Len(running) = 1
           /\ IF NumRunning(listed) > 0
              THEN /\ running[1].status = "True"
                   /\ running[1].reason = Some("JobsRunning")
                   /\ running[1].message =
                          Some(<<NumRunning(listed), "jobs are currently running">>)
              ELSE /\ running[1].status = "False"
                   /\ running[1].reason = None

\* C13, amended: status and reason of the stored Running condition are those
\* of the pass (True / JobsRunning exactly when finished < total, False
\* without a reason otherwise); the message is the one of the pass only when
\* the pass changed status or reason or stored the first Running condition,
\* and otherwise the message stored before the pass stays.
C13_RunningStatusOfThePass ==
    Folded =>
        LET running == StoredOf(fnOut[1].conditions, "Running")
            old == StoredOf(fnIn.before, "Running")
            listed == fnIn.listed
            kept == /\ Len(old) = 1
                    /\ old[1].status = running[1].status
                    /\ old[1].reason = running[1].reason
        IN /\ Len(running) = 1
           /\ <<running[1].status, running[1].reason>> =
                 IF NumSucceeded(listed) + NumFailed(listed) < NumTotal(listed)
                 THEN <<"True", Some("JobsRunning")>>
                 ELSE <<"False", None>>
           /\ running[1].message =
                 IF kept THEN old[1].message
                 ELSE IF NumRunning(listed) > 0
                 THEN Some(<<NumRunning(listed), "jobs are currently running">>)
                 ELSE None

\* C13: two jobs ran in the first pass, one runs in the second, and the
\* stored message still counts two
C13_Witness ==
    /\ Folded
    /\ fnIn.previous /= None
    /\ NumRunning(Unwrap(fnIn.previous)) = 2
    /\ NumRunning(fnIn.listed) = 1
    /\ \E i \in 1..Len(fnOut[1].conditions) :
           /\ fnOut[1].conditions[i].type = "Running"
           /\ fnOut[1].conditions[i].status = "True"
           /\ fnOut[1].conditions[i].message = Some(<<2, "jobs are currently running">>)

\* C14: the upsert replaces the stored condition of a type only when status
\* or reason differ; otherwise the stored condition stays as it is, with its
\* lastTransitionTime; conditions of other types stay where they are; so a
\* pass that observes the job population of the pass before it leaves every
\* condition, and every lastTransitionTime, unchanged.
C14_UpsertKeepsUnchanged ==
    Folded =>
        LET before == fnIn.before
            after == fnOut[1].conditions
        IN /\ Len(after) >= Len(before)
           /\ \A i \in 1..Len(before) :
                  /\ after[i].type = before[i].type
                  /\ before[i].type \notin {"Ready", "Running"} => after[i] = before[i]
                  /\ (after[i].status = before[i].status /\ after[i].reason = before[i].reason)
                        => after[i] = before[i]
                  /\ (after[i].status /= before[i].status \/ after[i].reason /= before[i].reason)
                        => after[i].last_transition_time = Some(fnIn.at)
           /\ \A i \in (Len(before) + 1)..Len(after) :
                  after[i].last_transition_time = Some(fnIn.at)
           /\ fnIn.previous = Some(fnIn.listed) => after = before

\* C14: a second pass over the same, nonempty population, after a first
\* pass that changed a condition: the conditions keep the time of the first
C14_Witness ==
    /\ Folded
    /\ fnIn.at = 2
    /\ fnIn.listed /= {}
    /\ fnIn.previous = Some(fnIn.listed)
    /\ fnOut[1].conditions = fnIn.before
    /\ \E i \in 1..Len(fnOut[1].conditions) :
           /\ fnOut[1].conditions[i].type = "Ready"
           /\ fnOut[1].conditions[i].last_transition_time = Some(1)

\* C15: starting from conditions with unique types, after every fold there
\* is exactly one Ready and exactly one Running condition, and no two stored
\* conditions have the same type.
C15_UniqueTypes ==
    LET conditions == fnOut[1].conditions
    IN /\ \A i, k \in 1..Len(conditions) :
              conditions[i].type = conditions[k].type => i = k
       /\ Folded => /\ Len(StoredOf(conditions, "Ready")) = 1
                    /\ Len(StoredOf(conditions, "Running")) = 1

\* C15: three folds over a list that began with Running, Synced and Ready
C15_Witness ==
    /\ Folded
    /\ fnIn.at = MaxFolds
    /\ Len(fnOut[1].conditions) = 3
    /\ fnOut[1].conditions[2] = ForeignCondition
    /\ fnOut[1].conditions[1].last_transition_time = Some(MaxFolds)

(***************************************************************************)
(* The fingerprint (execution hash) on its own                             *)
(***************************************************************************)
\* at most this many secret references in a plan
MaxRefs == 3

PlaybookTexts == {"playbook-a", "playbook-b"}

SecretNames == {"s1", "s2"}

\* the data of a secret: a BTreeMap, as the sequence of its (key, value) pairs
\* in key order
SecretData ==
    { <<<<"password", "x">>>>,
      <<<<"password", "y">>>>,
      <<<<"password", "x">>, <<"token", "y">>>> }

\* what a hasher has been fed: key.hash, value.hash, for each pair in turn
RECURSIVE Written(_)
Written(secret) ==
    IF secret = <<>> THEN <<>>
    ELSE <<Head(secret)[1], Head(secret)[2]>> \o Written(Tail(secret))

\* everything that is fed to a hasher here
Hashed ==
    << <<"playbook-a">>, <<"playbook-b">>,
       <<"password", "x">>, <<"password", "y">>, <<"password", "x", "token", "y">> >>

\* hasher.finish().  The digest function is outside the repository and is
\* taken as collision-free: each distinct input has a bit of its own, so no
\* XOR of digests of distinct inputs is zero.
finish(written) == 2 ^ ((CHOOSE i \in 1..Len(Hashed) : Hashed[i] = written) - 1)

\* .fold(0u64, |prev, next| prev ^ next)
RECURSIVE FoldXor(_, _)
FoldXor(hashes, prev) ==
    IF hashes = <<>> THEN prev
    ELSE FoldXor(Tail(hashes), Xor(prev, Head(hashes)))

\* a variant of calculate_execution_hash whose fold depends on the order
calculate_execution_hash_Chained(playbook, secrets) ==
    LET RECURSIVE Chain(_, _)
        Chain(hashes, prev) ==
            IF hashes = <<>> THEN prev
            ELSE Chain(Tail(hashes), Xor(2 * prev, Head(hashes)))
    IN Chain(<<finish(<<playbook>>)>> \o
                 [i \in 1..Len(secrets) |-> finish(Written(secrets[i]))], 0)

\* calculate_execution_hash(playbook, secrets)
calculate_execution_hash(playbook, secrets) ==
    FoldXor(<<finish(<<playbook>>)>> \o
                [i \in 1..Len(secrets) |-> finish(Written(secrets[i]))], 0)

\* the secrets a pass feeds in: the secret of each reference of the plan
\* (variables first, then files), fetched from the store
referenced_secrets(refs, store) == [i \in 1..Len(refs) |-> store[refs[i]]]

\* the lists of references of a plan
References == UNION {[1..n -> SecretNames] : n \in 0..MaxRefs}

\* the orders in which a list can be fed in
Orders(refs) ==
    {[i \in 1..Len(refs) |-> refs[f[i]]] :
        f \in {g \in [1..Len(refs) -> 1..Len(refs)] :
                  \A i, k \in 1..Len(refs) : g[i] = g[k] => i = k}}

InitFingerprint ==
    /\ Idle
    /\ fnIn \in [playbook : PlaybookTexts, store : [SecretNames -> SecretData],
                 refs : References, change : {"none"}]
    /\ fnOut = <<calculate_execution_hash(fnIn.playbook,
                                          referenced_secrets(fnIn.refs, fnIn.store)),
                 calculate_execution_hash(fnIn.playbook,
                                          referenced_secrets(fnIn.refs, fnIn.store))>>

\* the inputs change to next; fnOut holds the fingerprint before and after
ChangeTo(next) ==
    /\ fnIn' = next
    /\ fnOut' = <<fnOut[2],
                  calculate_execution_hash(next.playbook,
                                           referenced_secrets(next.refs, next.store))>>
    /\ IdleUnchanged

\* the playbook text changes
ChangePlaybook ==
    \E playbook \in PlaybookTexts \ {fnIn.playbook} :
        ChangeTo([fnIn EXCEPT !.playbook = playbook, !.change = "playbook"])

\* the data of one included secret changes
ChangeSecret ==
    \E name \in SeqToSet(fnIn.refs) :
        \E data \in SecretData \ {fnIn.store[name]} :
            ChangeTo([fnIn EXCEPT !.store[name] = data, !.change = "secret"])

\* the same references are fed in another order
ChangeOrder ==
    \E refs \in Orders(fnIn.refs) \ {fnIn.refs} :
        ChangeTo([fnIn EXCEPT !.refs = refs, !.change = "order"])

NextFingerprint == ChangePlaybook \/ ChangeSecret \/ ChangeOrder

SpecFingerprint == InitFingerprint /\ [][NextFingerprint]_vars

\* C16 as stated: a change of the playbook, or of the content of an included
\* secret, changes the fingerprint, whatever list of secrets is fed in.
C16_ChangeChangesFingerprint ==
    fnIn.change \in {"playbook", "secret"} => fnOut[1] /= fnOut[2]

\* C16, the failing case: a secret that is referenced twice has changed and
\* the fingerprint has not
C16_Witness ==
    /\ fnIn.change = "secret"
    /\ fnIn.refs = <<"s1", "s1">>
    /\ fnOut[1] = fnOut[2]
    /\ fnOut[2] = finish(<<fnIn.playbook>>)

\* C17: for a fixed playbook and a fixed collection of secrets the
\* fingerprint is the same for every order in which the secrets are fed in.
C17_OrderInsensitive ==
    /\ fnIn.change = "order" => fnOut[1] = fnOut[2]
    /\ \A refs \in Orders(fnIn.refs) :
           calculate_execution_hash(fnIn.playbook, referenced_secrets(refs, fnIn.store))
               = fnOut[2]

\* C17: three secrets, two of them different, after a change of the order
C17_Witness ==
    /\ fnIn.change = "order"
    /\ fnIn.refs = <<"s2", "s1", "s1">>
    /\ fnIn.store["s1"] /= fnIn.store["s2"]
    /\ fnOut[1] = fnOut[2]
    /\ fnOut[2] = Xor(finish(<<fnIn.playbook>>), finish(Written(fnIn.store["s2"])))

(***************************************************************************)
(* hostsStatus and eligibleHosts of the same pass                          *)
(***************************************************************************)
\* the hosts of the eligibleHosts stored in a status
StoredEligible(st) ==
    IF IsSome(st.eligible_hosts) THEN SeqToSet(Flatten(Unwrap(st.eligible_hosts))) ELSE {}

\* the hosts whose hostsStatus entry the latest pass wrote: new or changed
WrittenHosts ==
    LET old == Entries(last.before.hosts_status)
        new == Entries(plan_status.hosts_status)
    IN {h \in DOMAIN new : h \notin DOMAIN old \/ old[h] /= new[h]}

MaxGeneration == 3

\* a variant of render_workspace that records the generation after the observed one
render_workspace_NextGeneration(observed, resolved) ==
    [workspace |-> Some([generation |-> observed.generation, hosts |-> resolved]),
     status |-> [observed.status EXCEPT
                    !.last_rendered_generation = Some(observed.generation + 1)]]

\* the render block of the pass: the secret rendered from the observed plan,
\* and resource_status.last_rendered_generation = Some(generation)
render_workspace(observed, resolved) ==
    [workspace |-> Some([generation |-> observed.generation, hosts |-> resolved]),
     status |-> [observed.status EXCEPT
                    !.last_rendered_generation = Some(observed.generation)]]

InitWorkspace ==
    /\ clock = 1
    /\ spec_mode = "OneShot"
    /\ spec_schedule = None
    /\ spec_inventory = <<[name |-> 1, hosts |-> <<"h1">>]>>
    /\ generation = 1
    /\ fingerprint = 10
    /\ plan_status = DefaultStatus
    /\ jobs = {}
    /\ workspace = None
    /\ last = NoPass
    /\ creations = <<>>
    /\ fnIn = <<>>
    /\ fnOut = <<>>

WorkspaceUnchanged ==
    UNCHANGED <<clock, spec_mode, spec_schedule, spec_inventory, fingerprint,
                jobs, creations, fnOut>>

\* a pass starts: it reads the plan, its generation and its status
ObservePlan ==
    /\ fnIn = <<>>
    /\ fnIn' = <<[step |-> "render", generation |-> generation, status |-> plan_status,
                  before |-> [workspace |-> workspace,
                              last_rendered_generation |->
                                  plan_status.last_rendered_generation],
                  attempted |-> FALSE, written |-> FALSE]>>
    /\ last' = NoPass
    /\ UNCHANGED <<generation, plan_status, workspace>>
    /\ WorkspaceUnchanged

\* the render block: the secret is looked up now, the plan is the one read;
\* ok says whether the write of the secret succeeds
RenderStep(ok) ==
    /\ fnIn /= <<>>
    /\ fnIn[1].step = "render"
    /\ LET observed == fnIn[1]
           due == ~IsSome(workspace) \/ is_outdated(observed.status, observed.generation)
           rendered == render_workspace(observed, resolve(spec_inventory))
           pass == [observed EXCEPT !.before.workspace = workspace, !.attempted = due,
                                    !.written = due /\ ok]
       IN /\ ~due => ok
          /\ workspace' = IF due /\ ok THEN rendered.workspace ELSE workspace
          /\ fnIn' = IF due /\ ~ok THEN <<>>
                     ELSE <<[pass EXCEPT !.step = "persist",
                                         !.status = IF due THEN rendered.status
                                                    ELSE observed.status]>>
          /\ last' = [kind |-> "render", error |-> due /\ ~ok,
                      generation |-> observed.generation,
                      before |-> pass.before, attempted |-> due, written |-> due /\ ok,
                      status |-> IF due /\ ok THEN rendered.status ELSE observed.status]
    /\ UNCHANGED <<generation, plan_status>>
    /\ WorkspaceUnchanged

\* a variant of PersistStatusStep whose write is accepted for a plan that has changed
PersistStatusStep_NoConflict(ok) ==
    /\ fnIn /= <<>>
    /\ fnIn[1].step = "persist"
    /\ LET pass == fnIn[1]
       IN /\ plan_status' = IF ok THEN pass.status ELSE plan_status
          /\ last' = [kind |-> "pass", error |-> ~ok, generation |-> pass.generation,
                      before |-> pass.before, attempted |-> pass.attempted,
                      written |-> pass.written, status |-> pass.status]
    /\ fnIn' = <<>>
    /\ UNCHANGED <<generation, workspace>>
    /\ WorkspaceUnchanged

\* persist_status: replace_status of the plan as it was read; the API server
\* refuses it when the plan has changed since; ok says whether the call succeeds
PersistStatusStep(ok) ==
    /\ fnIn /= <<>>
    /\ fnIn[1].step = "persist"
    /\ LET pass == fnIn[1]
           done == ok /\ generation = pass.generation
       IN /\ plan_status' = IF done THEN pass.status ELSE plan_status
          /\ last' = [kind |-> "pass", error |-> ~done, generation |-> pass.generation,
                      before |-> pass.before, attempted |-> pass.attempted,
                      written |-> pass.written, status |-> pass.status]
    /\ fnIn' = <<>>
    /\ UNCHANGED <<generation, workspace>>
    /\ WorkspaceUnchanged

\* the user edits the plan
EditPlan ==
    /\ generation < MaxGeneration
    /\ generation' = generation + 1
    /\ last' = NoPass
    /\ UNCHANGED <<plan_status, workspace, fnIn>>
    /\ WorkspaceUnchanged

\* somebody deletes the workspace secret
DeleteWorkspace ==
    /\ IsSome(workspace)
    /\ workspace' = None
    /\ last' = NoPass
    /\ UNCHANGED <<generation, plan_status, fnIn>>
    /\ WorkspaceUnchanged

NextWorkspace ==
    \/ ObservePlan
    \/ \E ok \in BOOLEAN : RenderStep(ok)
    \/ \E ok \in BOOLEAN : PersistStatusStep(ok)
    \/ EditPlan
    \/ DeleteWorkspace

SpecWorkspace == InitWorkspace /\ [][NextWorkspace]_vars

\* the pass in flight has written the workspace secret and is about to
\* replace the status
PassWroteWorkspace ==
    /\ fnIn /= <<>>
    /\ fnIn[1].step = "persist"
    /\ fnIn[1].written

C19_Bounded ==
    IsSome(plan_status.last_rendered_generation) =>
        Unwrap(plan_status.last_rendered_generation) <= generation

C19_Change ==
    plan_status'.last_rendered_generation /= plan_status.last_rendered_generation =>
        /\ PassWroteWorkspace
        /\ plan_status'.last_rendered_generation = Some(fnIn[1].generation)

\* C19: lastRenderedGeneration, when set, is at most the plan's generation,
\* and it changes only to the generation observed by a pass that has
\* written the workspace secret.
C19_LastRenderedGeneration == [](C19_Bounded) /\ [][C19_Change]_vars

\* C19: the plan is at generation 3, a pass has rendered generation 2
C19_Witness ==
    /\ generation = 3
    /\ plan_status.last_rendered_generation = Some(2)
    /\ IsSome(workspace)
    /\ Unwrap(workspace).generation = 2

\* C20: a pass renders and writes the workspace secret exactly when the
\* secret does not exist or lastRenderedGeneration is unset or less than the
\* generation; when it has written, the secret is the rendering of that
\* generation and lastRenderedGeneration of the status of the pass is that
\* generation; when it does not render, the secret and lastRenderedGeneration
\* are as they were; the status a pass persists carries that value.
C20_RenderWhenDue ==
    last.kind \in {"render", "pass"} =>
        LET before == last.before
            due == \/ ~IsSome(before.workspace)
                   \/ ~IsSome(before.last_rendered_generation)
                   \/ Unwrap(before.last_rendered_generation) < last.generation
        IN /\ last.attempted <=> due
           /\ last.written =>
                 /\ last.status.last_rendered_generation = Some(last.generation)
                 /\ last.kind = "render" =>
                        /\ IsSome(workspace)
                        /\ Unwrap(workspace).generation = last.generation
           /\ ~last.attempted =>
                 /\ last.status.last_rendered_generation = before.last_rendered_generation
                 /\ last.kind = "render" => workspace = before.workspace
           /\ (last.kind = "pass" /\ ~last.error) =>
                 plan_status.last_rendered_generation = last.status.last_rendered_generation

\* C20: a pass at generation 2 found the secret deleted although generation 2
\* had been rendered, wrote it again and persisted its status
C20_Witness ==
    /\ last.kind = "pass"
    /\ ~last.error
    /\ last.written
    /\ last.generation = 2
    /\ last.before.workspace = None
    /\ last.before.last_rendered_generation = Some(2)
    /\ plan_status.last_rendered_generation = Some(2)
    /\ IsSome(workspace)

(***************************************************************************)
(* The pass with its early returns: the deletion check, the preconditions, *)
(* and the errors of the steps.  The plan's deletion timestamp is kept in  *)
(* fnOut, which is <<>> while it is unset.                                 *)
(***************************************************************************)
\* the variants of ReconcileError
ReconcileError ==
    {"KubeError", "PreconditionFailed", "RenderError",
     "JsonSerializationError", "YamlSerializationError"}

\* object.metadata.deletion_timestamp.is_some()
DeletionPending == fnOut /= <<>>

PassUnchanged ==
    UNCHANGED <<clock, spec_mode, spec_schedule, spec_inventory, generation,
                fingerprint, plan_status, jobs, workspace, creations, fnOut>>

\* the user deletes the plan: the deletion timestamp is set
MarkDeleted ==
    /\ ~DeletionPending
    /\ fnOut' = <<"deletion_timestamp">>
    /\ last' = NoPass
    /\ UNCHANGED <<clock, spec_mode, spec_schedule, spec_inventory, generation,
                   fingerprint, plan_status, jobs, workspace, creations, fnIn>>

\* a variant of DeletedPass that goes on with the pass
DeletedPass_Proceeds ==
    /\ DeletionPending
    /\ ObservePlan

\* the pass of a plan that is being deleted: return Ok(Action::await_change())
DeletedPass ==
    /\ DeletionPending
    /\ fnIn = <<>>
    /\ fnIn' = <<>>
    /\ last' = [kind |-> "noop", action |-> "await_change", requeue |-> None]
    /\ PassUnchanged

\* namespace, name, uid or generation is not set: the pass returns
\* PreconditionFailed before it reads anything else
PreconditionFails ==
    /\ ~DeletionPending
    /\ fnIn = <<>>
    /\ fnIn' = <<>>
    /\ last' = [kind |-> "failed", reason |-> "PreconditionFailed", step |-> "observe"]
    /\ PassUnchanged

\* a variant of StepFails that writes the status of the pass all the same
StepFails_WritesStatus(reason) ==
    /\ fnIn /= <<>>
    /\ reason = "KubeError"
    /\ fnIn' = <<>>
    /\ plan_status' = fnIn[1].status
    /\ last' = [kind |-> "failed", reason |-> reason, step |-> fnIn[1].step]
    /\ UNCHANGED <<clock, spec_mode, spec_schedule, spec_inventory, generation,
                   fingerprint, jobs, workspace, creations, fnOut>>

\* a step of the pass in flight returns an error through `?`: a call of the
\* cluster API at any step, the render or the YAML serialization of the
\* render block when a render is due, the JSON serialization of persist_status
StepFails(reason) ==
    /\ fnIn /= <<>>
    /\ reason \in ReconcileError \ {"PreconditionFailed"}
    /\ reason \in {"RenderError", "YamlSerializationError"} =>
           /\ fnIn[1].step = "render"
           /\ ~IsSome(workspace) \/ is_outdated(fnIn[1].status, fnIn[1].generation)
    /\ reason = "JsonSerializationError" => fnIn[1].step = "persist"
    /\ fnIn' = <<>>
    /\ last' = [kind |-> "failed", reason |-> reason, step |-> fnIn[1].step]
    /\ PassUnchanged

NextPass ==
    \/ ~DeletionPending /\ ObservePlan
    \/ DeletedPass
    \/ PreconditionFails
    \/ \E ok \in BOOLEAN : RenderStep(ok)
    \/ \E ok \in BOOLEAN : PersistStatusStep(ok)
    \/ \E reason \in ReconcileError : StepFails(reason)
    \/ EditPlan
    \/ DeleteWorkspace
    \/ MarkDeleted

SpecPass == InitWorkspace /\ [][NextPass]_vars

\* the latest step ended a pass in an error
PassFailed ==
    \/ last.kind = "failed"
    \/ last.kind \in {"render", "pass"} /\ last.error

\* the error came from the render block before the secret was written
RenderFailed ==
    \/ last.kind = "failed" /\ last.step = "render"
    \/ last.kind = "render" /\ last.error

C21_Step ==
    /\ (last' /= last /\ PassFailed') =>
           /\ fnIn' = <<>>
           /\ plan_status' = plan_status
           /\ RenderFailed' => workspace' = workspace
    /\ plan_status' /= plan_status => (last'.kind = "pass" /\ ~last'.error)

\* C21: a step of a pass that fails ends the pass at once and the pass
\* writes no status; when the render block fails the workspace secret is
\* neither created nor patched; the status changes only in the persist of
\* a pass that has not failed.
C21_ErrorsEndThePass == [][C21_Step]_vars

\* C21: a render error in the first pass of a plan: no secret, no status
C21_Witness ==
    /\ last = [kind |-> "failed", reason |-> "RenderError", step |-> "render"]
    /\ fnIn = <<>>
    /\ workspace = None
    /\ plan_status = DefaultStatus

C22_Step ==
    (DeletionPending /\ fnIn = <<>>) =>
        /\ fnIn' = <<>>
        /\ plan_status' = plan_status
        /\ jobs' = jobs
        /\ workspace' /= workspace => last'.kind = "none"
        /\ (last'.kind /= "none" /\ last' /= last) =>
               last' = [kind |-> "noop", action |-> "await_change", requeue |-> None]

\* C22: a pass over a plan with a deletion timestamp reads and writes
\* nothing (no workspace secret, no job, no status), and returns
\* await-change without a timed requeue.
C22_DeletedPlanIsLeftAlone == [][C22_Step]_vars

\* C22: the pass of a plan under deletion whose workspace is out of date
C22_Witness ==
    /\ DeletionPending
    /\ last = [kind |-> "noop", action |-> "await_change", requeue |-> None]
    /\ generation = 2
    /\ plan_status.last_rendered_generation = Some(1)

(***************************************************************************)
(* The creation loop of passes that interleave: each pass goes through the *)
(* hosts, checks the job by get, creates it when get found none, and       *)
(* persists its status at the end.  fnIn holds the passes, fnOut the       *)
(* passes that have written their status, in the order of the writes.      *)
(***************************************************************************)
RacePasses == {"p1", "p2", "p3"}

InitRace ==
    /\ Idle
    /\ fnIn = [p \in RacePasses |->
                  [pc |-> "get", rest |-> <<"h1", "h2">>, created |-> {}, skipped |-> {}]]
    /\ fnOut = <<>>

RaceUnchanged ==
    UNCHANGED <<clock, spec_mode, spec_schedule, spec_inventory, generation,
                fingerprint, workspace>>

\* jobs_api.get_opt(&job_name).await?.is_some(): continue, or go on to create
RaceGet(p) ==
    /\ fnIn[p].pc = "get"
    /\ fnIn[p].rest /= <<>>
    /\ LET job == create_job_for_host(Head(fnIn[p].rest), fingerprint, None)
       IN fnIn' = [fnIn EXCEPT ![p] =
                      IF job_exists(jobs, job.name)
                      THEN [@ EXCEPT !.rest = Tail(@), !.skipped = @ \cup {job.name}]
                      ELSE [@ EXCEPT !.pc = "create"]]
    /\ last' = NoPass
    /\ UNCHANGED <<jobs, plan_status, creations, fnOut>>
    /\ RaceUnchanged

\* a variant of RaceCreate with an API server that accepts a second job of a name
RaceCreate_NoUniqueness(p) ==
    /\ fnIn[p].pc = "create"
    /\ LET job == create_job_for_host(Head(fnIn[p].rest), fingerprint, None)
       IN /\ jobs' = jobs \cup {job}
          /\ creations' = Recorded(creations, {CreationKey(fingerprint, job.name.host, None)})
          /\ fnIn' = [fnIn EXCEPT ![p] =
                         [@ EXCEPT !.pc = "get", !.rest = Tail(@),
                                   !.created = @ \cup {job.name}]]
          /\ last' = NoPass
    /\ UNCHANGED <<plan_status, fnOut>>
    /\ RaceUnchanged

\* jobs_api.create(..).await?: the API server rejects a name that exists, and
\* the pass returns the error
RaceCreate(p) ==
    /\ fnIn[p].pc = "create"
    /\ LET job == create_job_for_host(Head(fnIn[p].rest), fingerprint, None)
           taken == \E j \in jobs : j.name = job.name
       IN /\ jobs' = IF taken THEN jobs ELSE jobs \cup {job}
          /\ creations' = IF taken THEN creations
                          ELSE Recorded(creations,
                                        {CreationKey(fingerprint, job.name.host, None)})
          /\ fnIn' = [fnIn EXCEPT ![p] =
                         IF taken THEN [@ EXCEPT !.pc = "failed"]
                         ELSE [@ EXCEPT !.pc = "get", !.rest = Tail(@),
                                        !.created = @ \cup {job.name}]]
          /\ last' = IF taken THEN [kind |-> "pass", pass |-> p, error |-> TRUE]
                     ELSE NoPass
    /\ UNCHANGED <<plan_status, fnOut>>
    /\ RaceUnchanged

\* the loop is over: persist_status, the single status write of the pass
RacePersist(p) ==
    /\ fnIn[p].pc = "get"
    /\ fnIn[p].rest = <<>>
    /\ fnIn' = [fnIn EXCEPT ![p].pc = "done"]
    /\ plan_status' = [plan_status EXCEPT
                          !.current_hash = Some(HashToString(fingerprint))]
    /\ fnOut' = Append(fnOut, p)
    /\ last' = [kind |-> "pass", pass |-> p, error |-> FALSE]
    /\ UNCHANGED <<jobs, creations>>
    /\ RaceUnchanged

NextRace ==
    \E p \in RacePasses : RaceGet(p) \/ RaceCreate(p) \/ RacePersist(p)

SpecRace == InitRace /\ [][NextRace]_vars

\* the passes that have written their status
StatusWriters == SeqToSet(fnOut)

C23_State ==
    /\ \A k \in DOMAIN creations : creations[k] = 1
    /\ \A p \in RacePasses :
          /\ fnIn[p].pc = "failed" =>
                /\ p \notin StatusWriters
                /\ \E q \in RacePasses \ {p} :
                       \E n \in fnIn[q].created : n.host = Head(fnIn[p].rest)
          /\ fnIn[p].pc = "done" => p \in StatusWriters
          /\ \A q \in RacePasses \ {p} : fnIn[p].created \cap fnIn[q].created = {}

C23_Step ==
    \A p \in RacePasses :
        /\ (fnIn[p].pc /= "failed" /\ fnIn'[p].pc = "failed") =>
               /\ plan_status' = plan_status
               /\ fnOut' = fnOut
               /\ jobs' = jobs
        /\ (/\ fnIn[p].pc = "get"
            /\ fnIn[p].rest /= <<>>
            /\ fnIn'[p] /= fnIn[p]
            /\ \E j \in jobs : j.name.host = Head(fnIn[p].rest)) =>
               /\ fnIn'[p].pc = "get"
               /\ fnIn'[p].rest = Tail(fnIn[p].rest)
               /\ fnIn'[p].created = fnIn[p].created
               /\ jobs' = jobs

\* C23: when passes interleave the get and the create of a job name, one
\* job of that name is created; a create that comes after another pass's
\* create is rejected, that pass ends in an error without a status write;
\* and a pass whose get finds the job skips the creation.
C23_OneJobPerName == [](C23_State) /\ [][C23_Step]_vars

\* C23: p1 and p2 both found no job for h1; p2 created it and p1's create
\* was rejected; p3 came later, found both jobs and created none
C23_Witness ==
    /\ fnIn["p1"].pc = "failed"
    /\ fnIn["p1"].rest = <<"h1", "h2">>
    /\ fnIn["p2"].pc = "done"
    /\ Cardinality(fnIn["p2"].created) = 2
    /\ fnIn["p3"].pc = "done"
    /\ Cardinality(fnIn["p3"].skipped) = 2
    /\ StatusWriters = {"p2", "p3"}
    /\ Cardinality(jobs) = 2

(***************************************************************************)
(* The status write of a pass whose read of the plan is stale              *)
(***************************************************************************)
\* the pass in flight is at its status write and the plan has changed since
\* the pass read it
StaleAtPersist ==
    /\ fnIn /= <<>>
    /\ fnIn[1].step = "persist"
    /\ fnIn[1].generation /= generation

C24_Step ==
    /\ (StaleAtPersist /\ fnIn' /= fnIn) =>
           /\ plan_status' = plan_status
           /\ fnIn' = <<>>
           /\ PassFailed'
    /\ plan_status' /= plan_status =>
           /\ fnIn /= <<>>
           /\ fnIn[1].generation = generation'
           /\ plan_status' = fnIn[1].status

\* C24: when the plan has changed between the read of a pass and its status
\* write, the write is refused, the status stays as it was and the pass ends
\* in an error, so that a new pass can start; every status that is written
\* was derived from the plan as it is at the write.
C24_StaleWriteRefused == [][C24_Step]_vars

\* C24: a pass read generation 1 and wrote the secret, the plan was edited,
\* and the status write of the pass was refused
C24_Witness ==
    /\ last.kind = "pass"
    /\ last.error
    /\ last.written
    /\ last.generation = 1
    /\ generation = 2
    /\ fnIn = <<>>
    /\ plan_status = DefaultStatus

node_matches_AnyPair(node, selector) ==
    LET actual_labels == IF IsSome(node.labels) THEN Unwrap(node.labels) ELSE <<>>
    IN \E key \in DOMAIN selector.match_labels :
           /\ key \in DOMAIN actual_labels
           /\ actual_labels[key] = selector.match_labels[key]

\* nodeselector::node_matches, for the selector MatchLabels { labels }
node_matches(node, selector) ==
    LET actual_labels == IF IsSome(node.labels) THEN Unwrap(node.labels) ELSE <<>>
    IN \A key \in DOMAIN selector.match_labels :
           /\ key \in DOMAIN actual_labels
           /\ actual_labels[key] = selector.match_labels[key]

\* inventory_resolver::resolve_hosts, on the nodes the lister returned
resolve_hosts(nodes, hosts_source) ==
    IF hosts_source.kind = "FromStaticList" THEN hosts_source.from_list
    ELSE LET matching == SelectSeq(nodes, LAMBDA node : node_matches(node, hosts_source.from_nodes))
         IN [i \in 1..Len(matching) |-> matching[i].name]

\* inventory_resolver::resolve with both kinds of hosts
resolve_with_nodes(nodes, inventories_spec) ==
    resolve([i \in 1..Len(inventories_spec) |->
                [name |-> inventories_spec[i].name,
                 hosts |-> resolve_hosts(nodes, inventories_spec[i].hosts)]])

\* Mapping::insert of the host names: a name that is there keeps its place
RECURSIVE MappingKeys(_, _)
MappingKeys(hostnames, keys) ==
    IF hostnames = <<>> THEN keys
    ELSE MappingKeys(Tail(hostnames),
                     IF Head(hostnames) \in SeqToSet(keys) THEN keys
                     ELSE Append(keys, Head(hostnames)))

\* ansible::render_inventory: the groups of inventory.yml with the keys of
\* their hosts mapping, in the order of the document
render_inventory(inventory) ==
    [i \in 1..Len(inventory) |->
        [name |-> inventory[i].name, hosts |-> MappingKeys(inventory[i].hosts, <<>>)]]

\* node.metadata.labels
NodeLabels ==
    {None, Some(<<>>), Some([k \in {"role"} |-> "a"]), Some([k \in {"role"} |-> "b"]),
     Some([k \in {"role", "zone"} |-> IF k = "role" THEN "a" ELSE "b"])}

\* the hosts of an inventory: a static list or a selector over the nodes
HostsSources ==
    {[kind |-> "FromStaticList", from_list |-> <<"h1", "h2", "h1">>]} \cup
    {[kind |-> "FromClusterNodes", from_nodes |-> [match_labels |-> m]] :
        m \in {<<>>, [k \in {"role"} |-> "a"], [k \in {"zone"} |-> "a"],
               [k \in {"role", "zone"} |-> IF k = "role" THEN "a" ELSE "b"]}}

InitResolver ==
    /\ Idle
    /\ fnIn \in [nodes : {<<[name |-> "n2", labels |-> l2], [name |-> "n1", labels |-> l1]>> :
                             l1 \in NodeLabels, l2 \in NodeLabels},
                 inventory : UNION {[1..n -> [name : {1, 2}, hosts : HostsSources]] :
                                       n \in {1, 2}}]
    /\ fnOut = <<>>

\* resolve and render_inventory are applied to the inputs
ApplyResolve ==
    /\ fnOut = <<>>
    /\ LET resolved == resolve_with_nodes(fnIn.nodes, fnIn.inventory)
       IN fnOut' = <<[resolved |-> resolved, inventory_yml |-> render_inventory(resolved)]>>
    /\ UNCHANGED fnIn
    /\ IdleUnchanged

\* node_matches is applied to a node and the selector of an inventory
ApplyNodeMatches(i, k) ==
    /\ fnOut = <<>>
    /\ fnIn.inventory[k].hosts.kind = "FromClusterNodes"
    /\ fnOut' = <<[node |-> fnIn.nodes[i],
                   selector |-> fnIn.inventory[k].hosts.from_nodes,
                   matches |-> node_matches(fnIn.nodes[i],
                                            fnIn.inventory[k].hosts.from_nodes)]>>
    /\ UNCHANGED fnIn
    /\ IdleUnchanged

NextResolver ==
    \/ ApplyResolve
    \/ \E i \in 1..Len(fnIn.nodes) : \E k \in 1..Len(fnIn.inventory) : ApplyNodeMatches(i, k)

SpecResolver == InitResolver /\ [][NextResolver]_vars

\* the (key, value) pairs of a label map
Pairs(labels) == {<<key, labels[key]>> : key \in DOMAIN labels}

\* the hosts the claim gives inventory k
ExpectedHosts(nodes, source) ==
    IF source.kind = "FromStaticList" THEN source.from_list
    ELSE LET Matching(i) ==
                 /\ IsSome(nodes[i].labels) \/ DOMAIN source.from_nodes.match_labels = {}
                 /\ Pairs(source.from_nodes.match_labels) \subseteq
                        (IF IsSome(nodes[i].labels) THEN Pairs(Unwrap(nodes[i].labels))
                         ELSE {})
             RECURSIVE From(_)
             From(i) == IF i > Len(nodes) THEN <<>>
                        ELSE (IF Matching(i) THEN <<nodes[i].name>> ELSE <<>>) \o From(i + 1)
         IN From(1)

\* C26 as stated: each inventory name is mapped to its hosts (the static
\* list verbatim, or the names of exactly the matching nodes in lister
\* order), the groups of the result are in the order of the inventory spec,
\* and inventory.yml keeps that order of the groups.  (Stated for specs
\* whose inventory names are distinct.)
C26_GroupsInSpecOrder ==
    (/\ fnOut /= <<>>
     /\ "resolved" \in DOMAIN fnOut[1]
     /\ \A i, k \in 1..Len(fnIn.inventory) :
            fnIn.inventory[i].name = fnIn.inventory[k].name => i = k) =>
        /\ fnOut[1].resolved =
              [k \in 1..Len(fnIn.inventory) |->
                  [name |-> fnIn.inventory[k].name,
                   hosts |-> ExpectedHosts(fnIn.nodes, fnIn.inventory[k].hosts)]]
        /\ [k \in 1..Len(fnOut[1].inventory_yml) |-> fnOut[1].inventory_yml[k].name] =
              [k \in 1..Len(fnIn.inventory) |-> fnIn.inventory[k].name]

\* C26, the failing case: the spec lists the inventory 2 before the
\* inventory 1, the result and inventory.yml have 1 before 2
C26_Witness ==
    /\ fnOut /= <<>>
    /\ "resolved" \in DOMAIN fnOut[1]
    /\ Len(fnIn.inventory) = 2
    /\ fnIn.inventory[1].name = 2
    /\ fnIn.inventory[2].name = 1
    /\ fnIn.inventory[1].hosts.kind = "FromStaticList"
    /\ fnIn.inventory[2].hosts.kind = "FromClusterNodes"
    /\ Len(fnOut[1].resolved) = 2
    /\ fnOut[1].resolved[1].name = 1
    /\ fnOut[1].resolved[2] = [name |-> 2, hosts |-> <<"h1", "h2", "h1">>]
    /\ fnOut[1].inventory_yml[1].name = 1

\* C27: node_matches is true exactly when every pair of the selector is a
\* pair of the node's labels: a missing key or another value fails, further
\* labels of the node do not matter, the empty selector matches every node,
\* and a node without labels matches only the empty selector.
C27_NodeMatches ==
    (fnOut /= <<>> /\ "matches" \in DOMAIN fnOut[1]) =>
        LET wanted == Pairs(fnOut[1].selector.match_labels)
            labelled == IsSome(fnOut[1].node.labels)
            actual == IF labelled THEN Pairs(Unwrap(fnOut[1].node.labels)) ELSE {}
        IN /\ fnOut[1].matches <=> wanted \subseteq actual
           /\ wanted = {} => fnOut[1].matches
           /\ (~labelled /\ wanted /= {}) => ~fnOut[1].matches
           /\ (\E pair \in wanted : \A other \in actual : other[1] /= pair[1])
                 => ~fnOut[1].matches
           /\ (\E pair \in wanted : \E other \in actual :
                  other[1] = pair[1] /\ other[2] /= pair[2]) => ~fnOut[1].matches

\* C27: a node with two labels matches a selector that asks for one of them
C27_Witness ==
    /\ fnOut /= <<>>
    /\ "matches" \in DOMAIN fnOut[1]
    /\ fnOut[1].matches
    /\ Cardinality(Pairs(fnOut[1].selector.match_labels)) = 1
    /\ IsSome(fnOut[1].node.labels)
    /\ Cardinality(Pairs(Unwrap(fnOut[1].node.labels))) = 2

(***************************************************************************)
(* The cross-resource mappers on their own.  The index is the list of the  *)
(* plans in the reflector store.                                           *)
(***************************************************************************)
\* ObjectRef::from(plan)
ObjectRef(plan) == [namespace |-> plan.namespace, name |-> plan.name]

\* a variant of node_to_playbookplans that returns every plan of the index
node_to_playbookplans_All(index, node) ==
    [i \in 1..Len(index) |-> ObjectRef(index[i])]

\* mappers::node_to_playbookplans
node_to_playbookplans(index, node) ==
    LET kept == SelectSeq(index, LAMBDA resource :
                    \E i \in 1..Len(resource.inventory) :
                        resource.inventory[i].hosts.kind = "FromClusterNodes")
    IN [i \in 1..Len(kept) |-> ObjectRef(kept[i])]

\* a variant of secret_to_playbookplans that does not look at the namespace
secret_to_playbookplans_AnyNamespace(index, secret) ==
    LET InVariables(plan) ==
            /\ IsSome(plan.variables)
            /\ \E i \in 1..Len(Unwrap(plan.variables)) :
                   /\ Unwrap(plan.variables)[i].kind = "SecretRef"
                   /\ Unwrap(plan.variables)[i].secret_ref = secret.name
        InFiles(plan) ==
            /\ IsSome(plan.files)
            /\ \E i \in 1..Len(Unwrap(plan.files)) :
                   /\ Unwrap(plan.files)[i].kind = "Secret"
                   /\ Unwrap(plan.files)[i].secret_ref = secret.name
        kept == SelectSeq(index, LAMBDA plan : InVariables(plan) \/ InFiles(plan))
    IN [i \in 1..Len(kept) |-> ObjectRef(kept[i])]

\* mappers::secret_to_playbookplans
secret_to_playbookplans(index, secret) ==
    LET InVariables(plan) ==
            /\ IsSome(plan.variables)
            /\ \E i \in 1..Len(Unwrap(plan.variables)) :
                   /\ Unwrap(plan.variables)[i].kind = "SecretRef"
                   /\ Unwrap(plan.variables)[i].secret_ref = secret.name
        InFiles(plan) ==
            /\ IsSome(plan.files)
            /\ \E i \in 1..Len(Unwrap(plan.files)) :
                   /\ Unwrap(plan.files)[i].kind = "Secret"
                   /\ Unwrap(plan.files)[i].secret_ref = secret.name
        in_namespace == SelectSeq(index, LAMBDA resource :
                            resource.namespace = secret.namespace)
        kept == SelectSeq(in_namespace, LAMBDA plan :
                    IF InVariables(plan) THEN TRUE
                    ELSE IF IsSome(plan.files) THEN InFiles(plan)
                    ELSE FALSE)
    IN [i \in 1..Len(kept) |-> ObjectRef(kept[i])]

\* the plans of the index, but for their names.  A source that is not a
\* secret reference has the secret_ref "" here.
IndexedPlans ==
    [namespace : {"ns1", "ns2"},
     inventory : {<<[name |-> 1, hosts |-> [kind |-> "FromStaticList"]]>>,
                  <<[name |-> 1, hosts |-> [kind |-> "FromClusterNodes"]]>>,
                  <<[name |-> 1, hosts |-> [kind |-> "FromStaticList"]],
                    [name |-> 2, hosts |-> [kind |-> "FromClusterNodes"]]>>},
     variables : {None,
                  Some(<<[kind |-> "Inline", secret_ref |-> ""]>>),
                  Some(<<[kind |-> "SecretRef", secret_ref |-> "s1"]>>),
                  Some(<<[kind |-> "Inline", secret_ref |-> ""],
                         [kind |-> "SecretRef", secret_ref |-> "s2"]>>)},
     files : {None,
              Some(<<[kind |-> "Secret", secret_ref |-> "s1"]>>),
              Some(<<[kind |-> "Other", secret_ref |-> ""],
                     [kind |-> "Secret", secret_ref |-> "s2"]>>)}]

InitMappers ==
    /\ Idle
    /\ \E a \in IndexedPlans : \E b \in IndexedPlans :
           \E event \in [kind : {"secret"}, namespace : {"ns1", "ns2"}, name : {"s1", "s2"}]
                        \cup [kind : {"node"}, namespace : {""}, name : {"n1"}] :
               fnIn = [index |-> <<[namespace |-> a.namespace, name |-> "plan-1",
                                    inventory |-> a.inventory, variables |-> a.variables,
                                    files |-> a.files],
                                   [namespace |-> b.namespace, name |-> "plan-2",
                                    inventory |-> b.inventory, variables |-> b.variables,
                                    files |-> b.files]>>,
                       event |-> event]
    /\ fnOut = <<>>

\* a secret has changed: the secret mapper is called
ApplySecretMapper ==
    /\ fnOut = <<>>
    /\ fnIn.event.kind = "secret"
    /\ fnOut' = <<secret_to_playbookplans(fnIn.index, fnIn.event)>>
    /\ UNCHANGED fnIn
    /\ IdleUnchanged

\* a node was added, removed or changed: the node mapper is called
ApplyNodeMapper ==
    /\ fnOut = <<>>
    /\ fnIn.event.kind = "node"
    /\ fnOut' = <<node_to_playbookplans(fnIn.index, fnIn.event)>>
    /\ UNCHANGED fnIn
    /\ IdleUnchanged

NextMappers == ApplySecretMapper \/ ApplyNodeMapper

SpecMappers == InitMappers /\ [][NextMappers]_vars

\* the names of the secrets a plan references in variables or files
ReferencedSecrets(plan) ==
    {src.secret_ref : src \in {v \in (IF IsSome(plan.variables)
                                      THEN SeqToSet(Unwrap(plan.variables)) ELSE {}) :
                                  v.kind = "SecretRef"}}
    \cup
    {src.secret_ref : src \in {f \in (IF IsSome(plan.files)
                                      THEN SeqToSet(Unwrap(plan.files)) ELSE {}) :
                                  f.kind = "Secret"}}

\* C28: for a changed secret the secret mapper returns exactly the indexed
\* plans of the secret's namespace that reference the secret by name in
\* variables or files, each once.
C28_SecretMapper ==
    (fnOut /= <<>> /\ fnIn.event.kind = "secret") =>
        /\ SeqToSet(fnOut[1]) =
              {ObjectRef(plan) : plan \in
                  {q \in SeqToSet(fnIn.index) :
                      /\ q.namespace = fnIn.event.namespace
                      /\ fnIn.event.name \in ReferencedSecrets(q)}}
        /\ Len(fnOut[1]) = Cardinality(SeqToSet(fnOut[1]))

\* C28: two plans reference s1, one from variables and one from files; the
\* second is in another namespace and is not returned
C28_Witness ==
    /\ fnOut = <<<<[namespace |-> "ns1", name |-> "plan-1"]>>>>
    /\ fnIn.event = [kind |-> "secret", namespace |-> "ns1", name |-> "s1"]
    /\ fnIn.index[1].files = Some(<<[kind |-> "Secret", secret_ref |-> "s1"]>>)
    /\ fnIn.index[1].variables = None
    /\ fnIn.index[2].namespace = "ns2"
    /\ fnIn.index[2].variables = Some(<<[kind |-> "SecretRef", secret_ref |-> "s1"]>>)

\* C29: for a node event the node mapper returns exactly the indexed plans
\* whose inventory has a FromClusterNodes entry, each once, whichever node
\* it is; a plan with static lists only is not returned.
C29_NodeMapper ==
    (fnOut /= <<>> /\ fnIn.event.kind = "node") =>
        /\ SeqToSet(fnOut[1]) =
              {ObjectRef(plan) : plan \in
                  {q \in SeqToSet(fnIn.index) :
                      "FromClusterNodes" \in
                          {q.inventory[i].hosts.kind : i \in 1..Len(q.inventory)}}}
        /\ Len(fnOut[1]) = Cardinality(SeqToSet(fnOut[1]))

\* C29: a plan with a static list and a plan with a static list and a
\* selector: the second is returned
C29_Witness ==
    /\ fnOut = <<<<[namespace |-> "ns1", name |-> "plan-2"]>>>>
    /\ fnIn.event.kind = "node"
    /\ Len(fnIn.index[1].inventory) = 1
    /\ Len(fnIn.index[2].inventory) = 2

(***************************************************************************)
(* The static-variables files of the workspace and of the command line.    *)
(* A string that is put together by format! is the tuple of its parts; the *)
(* variable sources are [kind, secret_ref], secret_ref "" for Inline.      *)
(***************************************************************************)
\* the positions of the sources of a kind, in spec order (the filter_map)
KeptSources(variables, kind) ==
    IF IsSome(variables)
    THEN SelectSeq(Unwrap(variables), LAMBDA source : source.kind = kind)
    ELSE <<>>

\* format!("static-variables-{index}.yml")
static_variables_filename(index) == <<"static-variables-", HexDigits[index + 1], ".yml">>

\* workspace::render_secret: the keys of string_data (a plan without
\* requirements)
render_secret(plan) ==
    LET inlined_variables == KeptSources(plan.variables, "Inline")
    IN {<<"playbook.yml">>, <<"inventory.yml">>} \cup
       {static_variables_filename(index - 1) : index \in 1..Len(inlined_variables)}

\* job_builder::extract_secret_names_for_variables
extract_secret_names_for_variables(plan) ==
    LET kept == KeptSources(plan.variables, "SecretRef")
    IN [i \in 1..Len(kept) |-> kept[i].secret_ref]

\* the connection arguments of render_ansible_command
connection_args(plan, hostname) ==
    IF plan.connection_strategy = "Chroot"
    THEN <<<<"-c">>, <<"community.general.chroot">>, <<"-i">>, <<"/mnt/rootfs,">>>>
    ELSE <<<<"--ssh-common-args='-o UserKnownHostsFile=/ssh/known_hosts'">>,
           <<"--private-key">>, <<"/ssh/id_rsa">>, <<"--user">>, <<plan.user>>,
           <<"-i">>, <<"inventory.yml">>, <<"-l">>, <<hostname, ",">>>>

\* flat_map(|path| ["--extra-vars", path]) over the formatted paths
ExtraVars(paths) ==
    [i \in 1..(2 * Len(paths)) |->
        IF i % 2 = 1 THEN <<"--extra-vars">> ELSE paths[i \div 2]]

\* a variant of render_ansible_command that enumerates before it filters
render_ansible_command_SparseIndex(plan, hostname, extra_vars_filepaths) ==
    LET sources == IF IsSome(plan.variables) THEN Unwrap(plan.variables) ELSE <<>>
        inline == {i \in 1..Len(sources) : sources[i].kind = "Inline"}
        RECURSIVE Names(_)
        Names(i) == IF i > Len(sources) THEN <<>>
                    ELSE (IF i \in inline
                          THEN <<<<"@">> \o static_variables_filename(i - 1)>>
                          ELSE <<>>) \o Names(i + 1)
    IN <<<<"ansible-playbook">>>>
       \o ExtraVars(Names(1))
       \o ExtraVars([i \in 1..Len(extra_vars_filepaths) |->
              <<"@/run/ansible-operator/vars/", extra_vars_filepaths[i], "/variables.yaml">>])
       \o connection_args(plan, hostname)
       \o <<<<"playbook.yml">>>>

\* job_builder::render_ansible_command
render_ansible_command(plan, hostname, extra_vars_filepaths) ==
    LET inlined == KeptSources(plan.variables, "Inline")
        static_vars_filenames ==
            [index \in 1..Len(inlined) |-> static_variables_filename(index - 1)]
    IN <<<<"ansible-playbook">>>>
       \o ExtraVars([i \in 1..Len(static_vars_filenames) |->
              <<"@">> \o static_vars_filenames[i]])
       \o ExtraVars([i \in 1..Len(extra_vars_filepaths) |->
              <<"@/run/ansible-operator/vars/", extra_vars_filepaths[i], "/variables.yaml">>])
       \o connection_args(plan, hostname)
       \o <<<<"playbook.yml">>>>

InitCommand ==
    /\ Idle
    /\ fnIn \in [variables : {None} \cup
                     {Some(v) : v \in UNION {[1..n -> {[kind |-> "Inline", secret_ref |-> ""],
                                                       [kind |-> "SecretRef", secret_ref |-> "s1"],
                                                       [kind |-> "SecretRef", secret_ref |-> "s2"]}] :
                                                n \in 0..MaxRefs}},
                 connection_strategy : {"Ssh", "Chroot"},
                 user : {"ansible"}]
    /\ fnOut = [secret |-> None, command |-> None]

\* the workspace secret of the plan is rendered
ApplyRenderSecret ==
    /\ fnOut.secret = None
    /\ fnOut' = [fnOut EXCEPT !.secret = Some(render_secret(fnIn))]
    /\ UNCHANGED fnIn
    /\ IdleUnchanged

\* the command line of the job for h1 is rendered
ApplyRenderCommand ==
    /\ fnOut.command = None
    /\ fnOut' = [fnOut EXCEPT !.command =
                    Some(render_ansible_command(fnIn, "h1",
                                                extract_secret_names_for_variables(fnIn)))]
    /\ UNCHANGED fnIn
    /\ IdleUnchanged

NextCommand == ApplyRenderSecret \/ ApplyRenderCommand

SpecCommand == InitCommand /\ [][NextCommand]_vars

\* the number of Inline sources of the plan
NumInline ==
    IF IsSome(fnIn.variables)
    THEN Cardinality({i \in 1..Len(Unwrap(fnIn.variables)) :
                         Unwrap(fnIn.variables)[i].kind = "Inline"})
    ELSE 0

\* the file names the claim expects: static-variables-<i>.yml, i = 0..N-1
ExpectedStaticFiles ==
    [i \in 1..NumInline |-> <<"static-variables-", HexDigits[i], ".yml">>]

\* the positions of the command line that follow an --extra-vars
ExtraVarsArguments(command) ==
    LET at == {i \in 2..Len(command) : command[i - 1] = <<"--extra-vars">>}
        RECURSIVE From(_)
        From(i) == IF i > Len(command) THEN <<>>
                   ELSE (IF i \in at THEN <<command[i]>> ELSE <<>>) \o From(i + 1)
    IN From(1)

\* C30: the workspace has static-variables-<i>.yml for exactly i = 0..N-1,
\* N the number of Inline sources; the command line passes exactly these
\* names, in that order, by --extra-vars, before the paths of the variables
\* that come from secrets; so the files the command names are the rendered
\* ones.
C30_StaticVariablesFiles ==
    /\ IsSome(fnOut.secret) =>
          {key \in Unwrap(fnOut.secret) : key[1] = "static-variables-"} =
              SeqToSet(ExpectedStaticFiles)
    /\ IsSome(fnOut.command) =>
          LET passed == ExtraVarsArguments(Unwrap(fnOut.command))
              secrets == extract_secret_names_for_variables(fnIn)
          IN /\ Len(passed) = NumInline + Len(secrets)
             /\ \A i \in 1..NumInline : passed[i] = <<"@">> \o ExpectedStaticFiles[i]
             /\ \A i \in 1..Len(secrets) :
                    passed[NumInline + i] =
                        <<"@/run/ansible-operator/vars/", secrets[i], "/variables.yaml">>
    /\ (IsSome(fnOut.secret) /\ IsSome(fnOut.command)) =>
          {Tail(arg) : arg \in {a \in SeqToSet(ExtraVarsArguments(Unwrap(fnOut.command))) :
                                   a[1] = "@"}}
              = {key \in Unwrap(fnOut.secret) : key[1] = "static-variables-"}

\* C30: Inline, SecretRef, Inline: the files 0 and 1 in the workspace and
\* on the command line, both before the path of the secret
C30_Witness ==
    /\ fnIn.variables = Some(<<[kind |-> "Inline", secret_ref |-> ""],
                               [kind |-> "SecretRef", secret_ref |-> "s1"],
                               [kind |-> "Inline", secret_ref |-> ""]>>)
    /\ IsSome(fnOut.secret)
    /\ IsSome(fnOut.command)
    /\ <<"static-variables-", "1", ".yml">> \in Unwrap(fnOut.secret)
    /\ <<"static-variables-", "2", ".yml">> \notin Unwrap(fnOut.secret)
    /\ Unwrap(fnOut.command)[5] = <<"@", "static-variables-", "1", ".yml">>
    /\ Unwrap(fnOut.command)[7] = <<"@/run/ansible-operator/vars/", "s1", "/variables.yaml">>

(***************************************************************************)
(* The patch of an existing workspace secret.  A map of the secret is a    *)
(* function from its keys; string_data and data are Options of a map.      *)
(***************************************************************************)
\* a variant of the closure that hands the existing data over as it is
mutate_fn_KeepsData(existing, desired_state) ==
    [desired_state EXCEPT !.data = existing.data]

\* the closure the reconciler passes to create_or_update
mutate_fn(existing, desired_state) ==
    LET desired_data == IF IsSome(desired_state.string_data)
                        THEN Unwrap(desired_state.string_data) ELSE <<>>
    IN [desired_state EXCEPT !.data =
           IF IsSome(existing.data)
           THEN LET d == Unwrap(existing.data)
                IN Some([key \in {k \in DOMAIN d : k \notin DOMAIN desired_data} |-> d[key]])
           ELSE None]

\* utils::create_or_update: the request that is sent for the resource
create_or_update(existing_resource, resource) ==
    IF IsSome(existing_resource)
    THEN [verb |-> "patch", body |-> mutate_fn(Unwrap(existing_resource), resource)]
    ELSE [verb |-> "create", body |-> resource]

\* the keys an existing secret may hold in data: two that a render writes, one
\* that a render writes for a second Inline source only, one it never writes
ExistingKeys ==
    {<<"playbook.yml">>, static_variables_filename(0), static_variables_filename(1),
     <<"id_rsa">>}

InitPatch ==
    /\ Idle
    /\ fnIn \in [plan : [variables : {None} \cup
                            {Some(v) : v \in UNION {[1..n -> {[kind |-> "Inline", secret_ref |-> ""],
                                                              [kind |-> "SecretRef", secret_ref |-> "s1"]}] :
                                                       n \in 0..MaxRefs}}],
                 existing : {None, Some([string_data |-> None, data |-> None])} \cup
                            {Some([string_data |-> None, data |-> Some([k \in keys |-> "binary"])]) :
                                keys \in SUBSET ExistingKeys}]
    /\ fnOut = None

\* the render block of the pass: the secret is rendered and sent
ApplyCreateOrUpdate ==
    /\ fnOut = None
    /\ LET string_data == [key \in render_secret(fnIn.plan) |-> "rendered"]
           secret == [string_data |-> Some(string_data), data |-> None]
       IN fnOut' = Some(create_or_update(fnIn.existing, secret))
    /\ UNCHANGED fnIn
    /\ IdleUnchanged

SpecPatch == InitPatch /\ [][ApplyCreateOrUpdate]_vars

\* C31: the patch of an existing workspace secret carries every rendered key
\* in string_data, and its data is the existing data without the keys of the
\* new set: a key of the existing data that is not rendered stays, with its
\* value; a rendered key is not in data.
C31_PatchOfExistingSecret ==
    (IsSome(fnOut) /\ IsSome(fnIn.existing)) =>
        LET request == Unwrap(fnOut)
            existing == Unwrap(fnIn.existing)
            rendered == render_secret(fnIn.plan)
        IN /\ request.verb = "patch"
           /\ IsSome(request.body.string_data)
           /\ DOMAIN Unwrap(request.body.string_data) = rendered
           /\ IsSome(request.body.data) = IsSome(existing.data)
           /\ IsSome(existing.data) =>
                 LET old == Unwrap(existing.data)
                     new == Unwrap(request.body.data)
                 IN /\ DOMAIN new = (DOMAIN old) \ rendered
                    /\ \A key \in DOMAIN new : new[key] = old[key]

\* C31: the existing secret holds playbook.yml and id_rsa in data; the patch
\* keeps id_rsa there and drops playbook.yml, which it carries in string_data
C31_Witness ==
    /\ IsSome(fnOut)
    /\ IsSome(fnIn.existing)
    /\ IsSome(Unwrap(fnIn.existing).data)
    /\ DOMAIN Unwrap(Unwrap(fnIn.existing).data) = {<<"playbook.yml">>, <<"id_rsa">>}
    /\ DOMAIN Unwrap(Unwrap(fnOut).body.data) = {<<"id_rsa">>}
    /\ <<"playbook.yml">> \in DOMAIN Unwrap(Unwrap(fnOut).body.string_data)

(***************************************************************************)
(* Convergence of a OneShot plan.  The plan is edited finitely often, the  *)
(* passes keep running (job events and requeues), and every job that was   *)
(* created succeeds in the end.                                            *)
(***************************************************************************)
\* a fingerprint whose job names are those of the fingerprint 10: the two
\* numbers differ by 36^5, and 36^5 is even, so they still do after the XOR
\* with the start-time hash 1 of a OneShot plan
CollidingFingerprint == 10 + Len(ALPHABET) * Len(ALPHABET) * Len(ALPHABET) * Len(ALPHABET) * Len(ALPHABET)

\* the names of the jobs a OneShot pass builds for the eligible hosts
NamesFor(hash) == {job_name(hash, None, h) : h \in EligibleHosts}

\* the user edits the playbook; an edit that would need more than MaxJobs jobs
\* in the cluster is left out
EditPlaybookTo(hash) ==
    /\ Cardinality(JobNames \cup NamesFor(hash)) <= MaxJobs
    /\ EditPlaybook(hash)

\* The user puts hosts back into the inventory: a new generation, the same
\* fingerprint.  Left out when the jobs of the hosts would not fit MaxJobs, and
\* after MaxGeneration, so that the edits are finitely many.
RestoreInventory(inv) ==
    LET hosts == UNION {SeqToSet(inv[i].hosts) : i \in 1..Len(inv)}
    IN /\ EligibleHosts \subseteq hosts
       /\ EligibleHosts /= hosts
       /\ generation < MaxGeneration
       /\ Cardinality(JobNames \cup {job_name(fingerprint, None, h) : h \in hosts}) <= MaxJobs
       /\ spec_inventory' = inv
       /\ generation' = generation + 1
       /\ last' = NoPass
       /\ UNCHANGED <<clock, spec_mode, spec_schedule, fingerprint,
                      plan_status, jobs, workspace, creations, fnIn, fnOut>>

\* A node leaves the cluster: the inventories resolve to the hosts without it.
\* The plan is not edited, so the generation stays.
NodeLeaves(node) ==
    /\ node \in EligibleHosts
    /\ spec_inventory' =
           [i \in 1..Len(spec_inventory) |->
               [spec_inventory[i] EXCEPT
                   !.hosts = SelectSeq(@, LAMBDA host : host /= node)]]
    /\ last' = NoPass
    /\ UNCHANGED <<clock, spec_mode, spec_schedule, generation, fingerprint,
                   plan_status, jobs, workspace, creations, fnIn, fnOut>>

JobSucceeds == \E job \in jobs : JobFinishes(job, "SuccessCriteriaMet")

\* a OneShot plan without a schedule: every pass is a firing
InitConverge ==
    /\ Init
    /\ spec_mode = "OneShot"
    /\ spec_schedule = None

NextConverge ==
    \/ Reconcile
    \/ JobSucceeds
    \/ \E hash \in {26, CollidingFingerprint} : EditPlaybookTo(hash)
    \/ \E inv \in Inventories : EditInventory(inv)

\* Passes keep running: a pass is the latest step again and again, so a pass
\* follows every step of the environment.  A job that runs gets to succeed.
SpecConverge ==
    /\ InitConverge
    /\ [][NextConverge]_vars
    /\ []<>PassDone
    /\ WF_vars(JobSucceeds)

\* every eligible host is at the current fingerprint, Ready is True and the
\* phase is Finished
Converged ==
    /\ OutdatedUnder(plan_status.hosts_status) = {}
    /\ \E i \in 1..Len(plan_status.conditions) :
           /\ plan_status.conditions[i].type = "Ready"
           /\ plan_status.conditions[i].status = "True"
    /\ plan_status.phase = Some("Finished")

\* a job of another fingerprint holds the name of the job of an eligible host
Shadowed ==
    \E j \in jobs : /\ j.name \in NamesFor(fingerprint)
                    /\ j.labels.hash /= HexForm(fingerprint)

\* a pass in a converged state creates no job and leaves hostsStatus alone
ConvergedStep ==
    (Converged /\ last'.kind = "pass") =>
        /\ jobs' = jobs
        /\ plan_status'.hosts_status = plan_status.hosts_status

C32_ConvergesUnlessShadowed ==
    /\ <>[](Converged \/ Shadowed)
    /\ [][ConvergedStep]_vars

StoredIs(type, status, reason) ==
    \E i \in 1..Len(plan_status.conditions) :
        /\ plan_status.conditions[i].type = type
        /\ plan_status.conditions[i].status = status
        /\ plan_status.conditions[i].reason = reason

CreatedKeys ==
    {k \in DOMAIN creations' : k \notin DOMAIN creations \/ creations'[k] > creations[k]}

\* the gate of a pass of a plan with a schedule: Now(t) only for a firing t
\* with t <= now < t + window; otherwise Delayed(u) with the first firing u
\* after now, and no creation
C34_Gate ==
    (PassDone /\ IsSome(spec_schedule)) =>
        LET now == last.at
            t == last.timing.at
        IN /\ t \in Firings(Unwrap(spec_schedule))
           /\ last.timing.kind = "Now" => (t <= now /\ now < t + FiringWindow)
           /\ last.timing.kind = "Delayed" =>
                 /\ t = FirstFiringAfter(Unwrap(spec_schedule), now)
                 /\ last.calls = <<>>
           /\ (\A f \in Firings(Unwrap(spec_schedule)) : ~(f <= now /\ now < f + FiringWindow))
                 => last.timing.kind = "Delayed"

\* a job for the firing t is created only at an instant of [t, t + window)
C34_Step ==
    \A k \in CreatedKeys :
        IsSome(k.start) =>
            /\ Unwrap(k.start) <= Instants[clock]
            /\ Instants[clock] < Unwrap(k.start) + FiringWindow

Suffixes == Len(ALPHABET) * Len(ALPHABET) * Len(ALPHABET) * Len(ALPHABET) * Len(ALPHABET)

\* the jobs that hold the name of the job of a host under the current
\* fingerprint but were created for another fingerprint
OlderJobsNamedLike(h) ==
    {j \in jobs : /\ j.name = job_name(fingerprint, None, h)
                  /\ j.labels.hash /= HexForm(fingerprint)}

EditedOutsideTheFingerprint ==
    /\ IsSome(plan_status.last_rendered_generation)
    /\ Unwrap(plan_status.last_rendered_generation) < generation
    /\ plan_status.current_hash = Some(HexForm(fingerprint))

\* the eligible hosts that are at the fingerprint under a hostsStatus
HostsAtFingerprint(hosts_status) ==
    {h \in EligibleHosts : ~IsOutdatedHost(hosts_status, h, fingerprint)}

C36_Step ==
    (EditedOutsideTheFingerprint /\ spec_mode = "OneShot" /\ last'.kind = "pass") =>
        /\ plan_status'.current_hash = plan_status.current_hash
        /\ plan_status'.last_rendered_generation = Some(generation)
        /\ IsSome(workspace') /\ Unwrap(workspace').generation = generation
        /\ \A h \in HostsAtFingerprint(plan_status.hosts_status) :
               /\ h \notin SeqToSet(last'.dispatch)
               /\ \A name \in SeqToSet(last'.calls) : name.host /= h
               /\ h \in HostsAtFingerprint(plan_status'.hosts_status)

NextInventory ==
    \/ Reconcile
    \/ JobSucceeds
    \/ EditPlaybookTo(26)
    \/ \E inv \in Inventories : EditInventory(inv)
    \/ \E inv \in Inventories : RestoreInventory(inv)
    \/ \E node \in Hosts : NodeLeaves(node)

SpecInventory == InitConverge /\ [][NextInventory]_vars

\* the entries of a hostsStatus, as a function of the hosts
EntriesOf(hosts_status) == IF IsSome(hosts_status) THEN Unwrap(hosts_status) ELSE <<>>

\* a pass keeps every entry of hostsStatus: the entry is as before, or it is
\* the current fingerprint
C37_Step ==
    last'.kind = "pass" =>
        LET old == EntriesOf(plan_status.hosts_status)
            new == EntriesOf(plan_status'.hosts_status)
        IN /\ DOMAIN old \subseteq DOMAIN new
           /\ \A h \in DOMAIN old :
                  \/ new[h] = old[h]
                  \/ new[h] = [last_applied_hash |-> HexForm(fingerprint)]
           /\ \A h \in (DOMAIN old) \ EligibleHosts : h \in DOMAIN new
           /\ \A h \in HostsAtFingerprint(plan_status.hosts_status) :
                  /\ h \notin SeqToSet(last'.dispatch)
                  /\ \A name \in SeqToSet(last'.calls) : name.host /= h

WorkspaceUpToDate ==
    /\ IsSome(workspace)
    /\ IsSome(plan_status.last_rendered_generation)
    /\ Unwrap(plan_status.last_rendered_generation) >= generation

\* a pass stores the hosts the inventories resolve to now; it writes the
\* workspace only when the workspace is absent or of an older generation
C38_Step ==
    (last'.kind = "pass" /\ ~last'.error) =>
        /\ plan_status'.eligible_hosts = Some(resolve(spec_inventory))
        /\ WorkspaceUpToDate => workspace' = workspace
        /\ ~WorkspaceUpToDate =>
               workspace' = Some([generation |-> generation,
                                  hosts |-> resolve(spec_inventory)])

Panic == [kind |-> "panic"]
Returned(value) == [kind |-> "returned", value |-> value]

\* the cron expressions of the model: every minute, the first of January
\* 2000 (no firing after it), and two that are no cron expressions
CronTexts == {"* * * * *", "0 0 1 1 * 2000", "every minute", ""}

\* cron::Schedule::from_str(format!("0 {cron}")): Some(schedule) for Ok, None
\* for Err; a schedule without firings has the period 0
Schedule_from_str(cron) ==
    CASE cron = "* * * * *" -> Some(Minutely)
      [] cron = "0 0 1 1 * 2000" -> Some([period |-> 0, offset |-> 0])
      [] OTHER -> None

\* a variant of forecast_next_run that returns an error value where the
\* function panics
forecast_next_run_ReturnsError(cron, now, window) ==
    LET offset_now == now - (IF IsSome(window) THEN Unwrap(window) ELSE 0)
        schedule == Schedule_from_str(cron)
    IN IF ~IsSome(schedule) THEN [kind |-> "error", reason |-> "PreconditionFailed"]
       ELSE IF Unwrap(schedule).period = 0
            THEN [kind |-> "error", reason |-> "PreconditionFailed"]
            ELSE Returned(NextAfter(Unwrap(schedule), offset_now))

\* forecast_next_run with its two unwrap(): of the parser's result, and of
\* the first element of schedule.after(&offset_now)
forecast_next_run_Outcome(cron, now, window) ==
    LET offset_now == now - (IF IsSome(window) THEN Unwrap(window) ELSE 0)
        schedule == Schedule_from_str(cron)
    IN IF ~IsSome(schedule) THEN Panic
       ELSE IF Unwrap(schedule).period = 0 THEN Panic
            ELSE Returned(NextAfter(Unwrap(schedule), offset_now))

\* evaluate_schedule on the text; what forecast_next_run does not return
\* passes through
evaluate_schedule_Outcome(schedule, now, window) ==
    IF ~IsSome(schedule) THEN Returned(TimingNow(now))
    ELSE LET next_run == forecast_next_run_Outcome(Unwrap(schedule), now, Some(window))
         IN IF next_run.kind /= "returned" THEN next_run
            ELSE LET offset_now == now - window
                     diff == next_run.value - offset_now
                 IN IF diff <= window THEN Returned(TimingNow(next_run.value))
                    ELSE Returned(TimingDelayed(next_run.value))

InitGate ==
    /\ Idle
    /\ fnIn \in [schedule : {None} \cup {Some(cron) : cron \in CronTexts},
                 now : MinutelyInstants]
    /\ fnOut = <<>>

\* The schedule gate of a pass and its end: with a timing the pass goes on,
\* writes the status and returns Ok; an error value ends it without the write;
\* a panic unwinds it, so there is neither the write nor a returned value.
ApplyGate ==
    /\ fnOut = <<>>
    /\ LET timing == evaluate_schedule_Outcome(fnIn.schedule, fnIn.now, FiringWindow)
       IN fnOut' = <<[timing |-> timing,
                      result |-> IF timing.kind = "returned" THEN [kind |-> "Ok"]
                                 ELSE IF timing.kind = "error"
                                 THEN [kind |-> "Err", reason |-> timing.reason]
                                 ELSE [kind |-> "panic"],
                      status_written |-> timing.kind = "returned"]>>
    /\ UNCHANGED fnIn
    /\ IdleUnchanged

SpecGate == InitGate /\ [][ApplyGate]_vars

\* the schedule is one the parser rejects, or one without a firing
NoFiring ==
    /\ IsSome(fnIn.schedule)
    /\ Unwrap(fnIn.schedule) \in {"0 0 1 1 * 2000", "every minute", ""}

IdInputs ==
    (0..40)
    \cup {36 * 36 - 1, 36 * 36, 36 * 36 * 36 - 1, 36 * 36 * 36,
          36 * 36 * 36 * 36 - 1, 36 * 36 * 36 * 36, 36 * 36 * 36 * 36 + 1}
    \cup {Suffixes - 1, Suffixes, Suffixes + 1, Suffixes + 10, Suffixes + 35,
          Suffixes + 36, 2 * Suffixes - 1, 2 * Suffixes + 7, 35 * Suffixes + 12345,
          2147483647}

InitId ==
    /\ Idle
    /\ fnIn \in [num : IdInputs]
    /\ fnOut = <<>>

ApplyGenerateId ==
    /\ fnOut = <<>>
    /\ fnOut' = <<generate_id(fnIn.num)>>
    /\ UNCHANGED fnIn
    /\ IdleUnchanged

SpecId == InitId /\ [][ApplyGenerateId]_vars

\* the digit a character stands for: a = 0, ..., z = 25, "0" = 26, ..., "9" = 35
DigitOf(ch) ==
    CASE ch = "a" -> 0 [] ch = "b" -> 1 [] ch = "c" -> 2 [] ch = "d" -> 3
      [] ch = "e" -> 4 [] ch = "f" -> 5 [] ch = "g" -> 6 [] ch = "h" -> 7
      [] ch = "i" -> 8 [] ch = "j" -> 9 [] ch = "k" -> 10 [] ch = "l" -> 11
      [] ch = "m" -> 12 [] ch = "n" -> 13 [] ch = "o" -> 14 [] ch = "p" -> 15
      [] ch = "q" -> 16 [] ch = "r" -> 17 [] ch = "s" -> 18 [] ch = "t" -> 19
      [] ch = "u" -> 20 [] ch = "v" -> 21 [] ch = "w" -> 22 [] ch = "x" -> 23
      [] ch = "y" -> 24 [] ch = "z" -> 25 [] ch = "0" -> 26 [] ch = "1" -> 27
      [] ch = "2" -> 28 [] ch = "3" -> 29 [] ch = "4" -> 30 [] ch = "5" -> 31
      [] ch = "6" -> 32 [] ch = "7" -> 33 [] ch = "8" -> 34 [] ch = "9" -> 35
      [] OTHER -> -1

\* the number five characters stand for, most significant first
ValueOf(id) ==
    (((DigitOf(id[1]) * 36 + DigitOf(id[2])) * 36 + DigitOf(id[3])) * 36
        + DigitOf(id[4])) * 36 + DigitOf(id[5])

\* C40: generate_id(n) is five characters of a-z0-9: the five least
\* significant base-36 digits of n (a = 0, ..., 9 = 35), padded with a on the
\* left, also for 0; so generate_id(n) = generate_id(n mod 36^5), and a second
\* call gives the same.
C40_GenerateId ==
    fnOut /= <<>> =>
        LET id == fnOut[1]
        IN /\ Len(id) = 5
           /\ \A i \in 1..5 : DigitOf(id[i]) >= 0
           /\ ValueOf(id) = fnIn.num % (36 * 36 * 36 * 36 * 36)
           /\ generate_id(fnIn.num % (36 * 36 * 36 * 36 * 36)) = id
           /\ generate_id(fnIn.num) = id

\* C40: 36^5 + 10 has six base-36 digits, b a a a a k; the id is the last
\* five, the one of 10
C40_Witness ==
    /\ fnOut /= <<>>
    /\ fnIn.num = 36 * 36 * 36 * 36 * 36 + 10
    /\ fnOut[1] = <<"a", "a", "a", "a", "k">>
    /\ fnOut[1] = generate_id(10)

====
